---------------------------- MODULE Spec2Model ----------------------------
(***************************************************************************)
(* entcache: a read-cache decorator over an SQL driver.                    *)
(*                                                                         *)
(* The model follows driver.go (Driver.Query, optionsFromContext, the      *)
(* recorder and the repeater), the cache levels (LRU, Redis, multiLevel,   *)
(* contextLevel) and the context helpers (NewContext, Skip, Evict,         *)
(* WithKey, WithTTL).  The wrapped driver, its row stream, the Redis       *)
(* service and the clock are the environment: their choices are inputs of  *)
(* the actions.                                                            *)
(***************************************************************************)
EXTENDS Integers, Sequences, FiniteSets, TLC

VARIABLES
    cfg,      \* Options of the Driver, fixed by NewDriver: Cache, TTL, Log
    script,   \* the calls a test makes, in order; empty for a free caller
    lru,      \* the items of every LRU, most recently used first
    rdb,      \* the Redis service: textual key -> stored bytes
    now,      \* the clock read by time.Now()
    stats,    \* Driver.stats: Gets, Hits, Errors
    q,        \* per caller: the call in progress and the row handle it got
    dbCalls,  \* how often the wrapped driver's Query ran (the mock's count)
    calls     \* how many Driver.Query calls were made

vars == <<cfg, script, lru, rdb, now, stats, q, dbCalls, calls>>

---------------------------------------------------------------------------
(* Bounds of the model.                                                    *)

MaxCalls == 5      \* calls one test makes
MaxFree == 1       \* Driver.Query calls of a free caller
MaxTime == 1       \* the last instant of the clock
MaxScans == 2      \* rows a free caller scans from one row handle
MaxNexts == 3      \* times Next returns true to a free caller on one row handle
MaxOps == 3        \* direct calls of the cache's Add, Get and Del
MaxConc == 3       \* calls of Query made by the concurrent callers together
MaxLruOps == 4     \* calls of the LRU's Add, Get and Del made by the threads together
MaxLruCalls == 4   \* calls of Add, Get and Del on one LRU, one after the other
MaxCap == 2        \* the largest capacity an LRU is built with
MaxStats == 1      \* calls of Stats made while the callers run queries

---------------------------------------------------------------------------
(* Statements, arguments, rows.                                            *)

\* "SELECT" and "select", the two prefixes Driver.Query looks for.
SELECT == <<"S", "E", "L", "E", "C", "T">>
select == <<"s", "e", "l", "e", "c", "t">>

SelA == SELECT \o <<" ", "a">>
SelB == select \o <<" ", "b">>
SelX == SELECT \o <<" ", "x">>
Insert == <<"I", "N", "S", "E", "R", "T">>
Mixed == <<"S", "e", "l", "e", "c", "t", " ", "a">>
Spaced == <<" ">> \o SelA

NoArgs == << >>

\* A driver value of a Go type that was not registered with gob.
Unreg == 99

\* The rows the database holds for each statement (one column each).
DbRows(query) ==
    CASE query = SelA -> << <<1>>, <<2>> >>
      [] query = SelB -> << >>
      [] query = SelX -> << <<Unreg>> >>
      [] OTHER -> << <<1>> >>

DbColumns(query) == <<"c">>

\* strings.HasPrefix
HasPrefix(s, prefix) ==
    /\ Len(s) >= Len(prefix)
    /\ SubSeq(s, 1, Len(prefix)) = prefix

---------------------------------------------------------------------------
(* Keys, entries and the entry codec.                                      *)

\* DefaultHash: the structural hash of (query, args) as a uint64.
DefaultHash(query, args) ==
    [key |-> <<"uint64">> \o query \o <<"|">> \o args, err |-> "nil"]

\* The key of the tests' WithKey(ctx, "cache-key").
CacheKey == <<"string", "cache-key">>

\* fmt.Sprint(k): the textual form drops the Go type of the key.
Sprint(k) == Tail(k)

\* The keys of the model: one per statement, and the key of WithKey.
Keys ==
    {DefaultHash(s, NoArgs).key : s \in {SelA, SelB, SelX, Insert, Mixed, Spaced}}
        \cup {CacheKey}

TextKeys == {Sprint(k) : k \in Keys}

Entry(columns, values) == [Columns |-> columns, Values |-> values]

NoEntry == Entry(<< >>, << >>)

EncodeError == <<"error">>

\* Entry.MarshalBinary: gob refuses a value whose type is not registered.
MarshalBinary(e) ==
    IF \E i \in DOMAIN e.Values : \E j \in DOMAIN e.Values[i] : e.Values[i][j] = Unreg
    THEN [buf |-> EncodeError, err |-> "error"]
    ELSE [buf |-> <<"gob", e.Columns, e.Values>>, err |-> "nil"]

\* Entry.UnmarshalBinary
UnmarshalBinary(buf) ==
    IF Len(buf) = 3 /\ buf[1] = "gob"
    THEN [e |-> Entry(buf[2], buf[3]), err |-> "nil"]
    ELSE [e |-> NoEntry, err |-> "error"]

ErrNotFound == "ErrNotFound"

---------------------------------------------------------------------------
(* The stores.  A store operation takes the stores' state                  *)
(* s = [lru |-> ..., rdb |-> ...] and returns the state it leaves.         *)

LRUIds == {"L1", "L2", "c1", "c2"}

NoBytes == << >>

\* lru.Cache of groupcache: a recency list, front first.
Has(items, k) == \E i \in DOMAIN items : items[i].k = k

Without(items, k) == SelectSeq(items, LAMBDA it : it.k # k)

ItemOf(items, k) == items[CHOOSE i \in DOMAIN items : items[i].k = k]

\* A variant of lruCacheAdd: an existing key keeps the value it has.
lruCacheAddKeep(items, maxEntries, k, val) ==
    IF Has(items, k)
    THEN <<ItemOf(items, k)>> \o Without(items, k)
    ELSE <<[k |-> k, val |-> val]>> \o items

\* A variant of lruCacheAdd: only a positive MaxEntries bounds the cache.
lruCacheAddPositive(items, maxEntries, k, val) ==
    LET pushed == <<[k |-> k, val |-> val]>> \o Without(items, k)
    IN IF maxEntries > 0 /\ Len(pushed) > maxEntries
       THEN SubSeq(pushed, 1, Len(pushed) - 1)
       ELSE pushed

\* lru.Cache.Add: an existing key moves to the front with the new value;
\* a new key is pushed to the front and, over MaxEntries, the oldest goes.
lruCacheAdd(items, maxEntries, k, val) ==
    IF Has(items, k)
    THEN <<[k |-> k, val |-> val]>> \o Without(items, k)
    ELSE LET pushed == <<[k |-> k, val |-> val]>> \o items
         IN IF maxEntries # 0 /\ Len(pushed) > maxEntries
            THEN SubSeq(pushed, 1, Len(pushed) - 1)
            ELSE pushed

\* A variant of lruCacheGet: the element found is taken out of the list.
lruCacheGetTake(items, k) == Without(items, k)

\* A variant of lruCacheGet: the element found stays where it is.
lruCacheGetStill(items, k) == items

\* lru.Cache.Get: a hit moves the item to the front.
lruCacheGet(items, k) ==
    IF Has(items, k)
    THEN <<ItemOf(items, k)>> \o Without(items, k)
    ELSE items

\* time.Now().Add(ttl)
Expiry(t, ttl) == t + ttl

\* A variant of Permanent: every ttl that is not positive means no expiry.
PermanentNonPositive(ttl) == ttl <= 0

\* LRU.Add stores the bare entry, without expiry, for ttl == 0 only.
Permanent(ttl) == ttl = 0

\* LRU.Add
LRUAdd(tier, s, k, e, ttl, t) ==
    LET m == MarshalBinary(e)
        u == UnmarshalBinary(m.buf)
        val == IF Permanent(ttl)
               THEN [typ |-> "Entry", e |-> u.e]
               ELSE [typ |-> "entry", e |-> u.e, expiry |-> Expiry(t, ttl)]
    IN IF m.err # "nil" THEN [s |-> s, err |-> m.err]
       ELSE IF u.err # "nil" THEN [s |-> s, err |-> u.err]
       ELSE [s |-> [s EXCEPT !.lru[tier.id] = lruCacheAdd(@, tier.max, k, val)],
             err |-> "nil"]

\* A variant of Before: the instant of expiry itself still counts as before.
BeforeOrAt(t, expiry) == t <= expiry

\* time.Now().Before(expiry)
Before(t, expiry) == t < expiry

\* LRU.Get
LRUGet(tier, s, k, t) ==
    LET items == s.lru[tier.id]
        moved == [s EXCEPT !.lru[tier.id] = lruCacheGet(items, k)]
    IN IF ~Has(items, k) THEN [s |-> s, e |-> NoEntry, err |-> ErrNotFound]
       ELSE LET val == ItemOf(items, k).val
            IN IF val.typ = "Entry" THEN [s |-> moved, e |-> val.e, err |-> "nil"]
               ELSE IF Before(t, val.expiry)
               THEN [s |-> moved, e |-> val.e, err |-> "nil"]
               ELSE [s |-> [s EXCEPT !.lru[tier.id] = Without(items, k)],
                     e |-> NoEntry, err |-> ErrNotFound]

\* LRU.Del
LRUDel(tier, s, k) ==
    [s |-> [s EXCEPT !.lru[tier.id] = Without(@, k)], err |-> "nil"]

\* Redis.Add; fail: the SET command fails.
RedisAdd(s, k, e, ttl, fail) ==
    LET key == Sprint(k)
        m == MarshalBinary(e)
    IN IF key = << >> THEN [s |-> s, err |-> "nil"]
       ELSE IF m.err # "nil" THEN [s |-> s, err |-> m.err]
       ELSE IF fail THEN [s |-> s, err |-> "error"]
       ELSE [s |-> [s EXCEPT !.rdb[key] = m.buf], err |-> "nil"]

\* Redis.Get; fail: the GET command fails.  A missing key is redis.Nil.
RedisGet(s, k, fail) ==
    LET key == Sprint(k)
        buf == IF key = << >> THEN NoBytes ELSE s.rdb[key]
        u == UnmarshalBinary(buf)
    IN IF key = << >> THEN [s |-> s, e |-> NoEntry, err |-> ErrNotFound]
       ELSE IF fail \/ Len(buf) = 0 THEN [s |-> s, e |-> NoEntry, err |-> ErrNotFound]
       ELSE IF u.err # "nil" THEN [s |-> s, e |-> NoEntry, err |-> u.err]
       ELSE [s |-> s, e |-> u.e, err |-> "nil"]

\* Redis.Del; fail: the DEL command fails.
RedisDel(s, k, fail) ==
    LET key == Sprint(k)
    IN IF key = << >> THEN [s |-> s, err |-> "nil"]
       ELSE IF fail THEN [s |-> s, err |-> "error"]
       ELSE [s |-> [s EXCEPT !.rdb[key] = NoBytes], err |-> "nil"]

\* One level of the cache: an LRU or the Redis level.
LevelAdd(tier, s, k, e, ttl, t, fail) ==
    IF tier.kind = "lru" THEN LRUAdd(tier, s, k, e, ttl, t)
    ELSE RedisAdd(s, k, e, ttl, fail)

LevelGet(tier, s, k, t, fail) ==
    IF tier.kind = "lru" THEN LRUGet(tier, s, k, t)
    ELSE RedisGet(s, k, fail)

LevelDel(tier, s, k, fail) ==
    IF tier.kind = "lru" THEN LRUDel(tier, s, k)
    ELSE RedisDel(s, k, fail)

\* A variant of multiLevelAddFrom: only the level at hand is written.
multiLevelAddOne(levels, i, s, k, e, ttl, t, fail) ==
    IF i > Len(levels) THEN [s |-> s, err |-> "nil"]
    ELSE LevelAdd(levels[i], s, k, e, ttl, t, fail)

\* multiLevel.Add: every level in order, the first error returns.
RECURSIVE multiLevelAddFrom(_, _, _, _, _, _, _, _)
multiLevelAddFrom(levels, i, s, k, e, ttl, t, fail) ==
    IF i > Len(levels) THEN [s |-> s, err |-> "nil"]
    ELSE LET r == LevelAdd(levels[i], s, k, e, ttl, t, fail)
         IN IF r.err # "nil" THEN r
            ELSE multiLevelAddFrom(levels, i + 1, r.s, k, e, ttl, t, fail)

multiLevelAdd(levels, s, k, e, ttl, t, fail) ==
    multiLevelAddFrom(levels, 1, s, k, e, ttl, t, fail)

\* A variant of multiLevelGetFrom: only the level at hand is asked.
multiLevelGetOne(levels, i, s, k, t, fail) ==
    IF i > Len(levels) THEN [s |-> s, e |-> NoEntry, err |-> ErrNotFound]
    ELSE LevelGet(levels[i], s, k, t, fail)

\* A variant of multiLevelGetFrom: an entry found in the level after the one
\* at hand is added to the level at hand.
multiLevelGetBackfill(levels, i, s, k, t, fail) ==
    IF i > Len(levels) THEN [s |-> s, e |-> NoEntry, err |-> ErrNotFound]
    ELSE LET r == LevelGet(levels[i], s, k, t, fail)
             n == IF i < Len(levels) THEN LevelGet(levels[i + 1], r.s, k, t, fail)
                  ELSE [s |-> r.s, e |-> NoEntry, err |-> ErrNotFound]
         IN IF r.err # ErrNotFound THEN r
            ELSE IF n.err # "nil" THEN n
            ELSE [n EXCEPT !.s = LevelAdd(levels[i], n.s, k, n.e, 0, t, FALSE).s]

\* multiLevel.Get: the first hit returns; not-found goes on; an error returns.
RECURSIVE multiLevelGetFrom(_, _, _, _, _, _)
multiLevelGetFrom(levels, i, s, k, t, fail) ==
    IF i > Len(levels) THEN [s |-> s, e |-> NoEntry, err |-> ErrNotFound]
    ELSE LET r == LevelGet(levels[i], s, k, t, fail)
         IN IF r.err = "nil" THEN r
            ELSE IF r.err # ErrNotFound THEN r
            ELSE multiLevelGetFrom(levels, i + 1, r.s, k, t, fail)

multiLevelGet(levels, s, k, t, fail) ==
    multiLevelGetFrom(levels, 1, s, k, t, fail)

\* A variant of multiLevelDelFrom: a level that fails does not end the
\* call, the level after it is deleted from as well.
multiLevelDelAll(levels, i, s, k, fail) ==
    IF i > Len(levels) THEN [s |-> s, err |-> "nil"]
    ELSE LET r == LevelDel(levels[i], s, k, fail)
             n == IF i < Len(levels) THEN LevelDel(levels[i + 1], r.s, k, fail) ELSE r
         IN [s |-> n.s, err |-> IF r.err # "nil" THEN r.err ELSE n.err]

\* multiLevel.Del: every level in order, the first error returns.
RECURSIVE multiLevelDelFrom(_, _, _, _, _)
multiLevelDelFrom(levels, i, s, k, fail) ==
    IF i > Len(levels) THEN [s |-> s, err |-> "nil"]
    ELSE LET r == LevelDel(levels[i], s, k, fail)
         IN IF r.err # "nil" THEN r
            ELSE multiLevelDelFrom(levels, i + 1, r.s, k, fail)

multiLevelDel(levels, s, k, fail) ==
    multiLevelDelFrom(levels, 1, s, k, fail)

\* A variant of FromContext: every context that carries a cache carries
\* the same one.
FromContextShared(ctx) ==
    [c |-> [kind |-> "lru", id |-> "c1", max |-> 0], ok |-> ctx.cache # "none"]

\* NewContext(ctx): the context carries an LRU without limit.
\* FromContext(ctx): the cache the context carries, if any.
FromContext(ctx) ==
    [c |-> [kind |-> "lru", id |-> ctx.cache, max |-> 0], ok |-> ctx.cache # "none"]

\* contextLevel.Get
contextLevelGet(ctx, s, k, t) ==
    LET f == FromContext(ctx)
    IN IF ~f.ok THEN [s |-> s, e |-> NoEntry, err |-> ErrNotFound]
       ELSE LRUGet(f.c, s, k, t)

\* A variant of contextLevelAdd: without a cache on the context the entry
\* goes to an LRU of the driver.
contextLevelAddDefault(ctx, s, k, e, ttl, t) ==
    LET f == FromContext(ctx)
    IN IF ~f.ok THEN LRUAdd([kind |-> "lru", id |-> "L1", max |-> 0], s, k, e, ttl, t)
       ELSE LRUAdd(f.c, s, k, e, ttl, t)

\* contextLevel.Add
contextLevelAdd(ctx, s, k, e, ttl, t) ==
    LET f == FromContext(ctx)
    IN IF ~f.ok THEN [s |-> s, err |-> "nil"]
       ELSE LRUAdd(f.c, s, k, e, ttl, t)

\* contextLevel.Del
contextLevelDel(ctx, s, k) ==
    LET f == FromContext(ctx)
    IN IF ~f.ok THEN [s |-> s, err |-> "nil"]
       ELSE LRUDel(f.c, s, k)

\* d.Cache.Get / Add / Del: the AddGetDeleter the Driver was built with.
CacheGet(cache, ctx, s, k, t, fail) ==
    CASE cache.kind = "multi" -> multiLevelGet(cache.levels, s, k, t, fail)
      [] cache.kind = "ctx" -> contextLevelGet(ctx, s, k, t)
      [] OTHER -> LevelGet(cache, s, k, t, fail)

CacheAdd(cache, ctx, s, k, e, ttl, t, fail) ==
    CASE cache.kind = "multi" -> multiLevelAdd(cache.levels, s, k, e, ttl, t, fail)
      [] cache.kind = "ctx" -> contextLevelAdd(ctx, s, k, e, ttl, t)
      [] OTHER -> LevelAdd(cache, s, k, e, ttl, t, fail)

CacheDel(cache, ctx, s, k, fail) ==
    CASE cache.kind = "multi" -> multiLevelDel(cache.levels, s, k, fail)
      [] cache.kind = "ctx" -> contextLevelDel(ctx, s, k)
      [] OTHER -> LevelDel(cache, s, k, fail)

---------------------------------------------------------------------------
(* The call context: the request-scope cache and the ambient options.      *)

NoKey == << >>

\* The zero ctxOptions; ok tells whether the context carries a record.
NoOptions == [ok |-> FALSE, skip |-> FALSE, evict |-> FALSE, key |-> NoKey, ttl |-> 0]

\* context.Background()
Background == [cache |-> "none", opts |-> NoOptions]

\* NewContext(ctx) with no levels: the context carries a fresh LRU, id.
NewContext(ctx, id) == [ctx EXCEPT !.cache = id]

\* A variant of Skip that also asks for the eviction of the key.
SkipEvicting(ctx) ==
    IF ~ctx.opts.ok
    THEN [ctx EXCEPT !.opts = [NoOptions EXCEPT !.ok = TRUE, !.skip = TRUE, !.evict = TRUE]]
    ELSE [ctx EXCEPT !.opts.skip = TRUE, !.opts.evict = TRUE]

\* Skip(ctx)
Skip(ctx) ==
    IF ~ctx.opts.ok
    THEN [ctx EXCEPT !.opts = [NoOptions EXCEPT !.ok = TRUE, !.skip = TRUE]]
    ELSE [ctx EXCEPT !.opts.skip = TRUE]

\* A variant of Evict that does not set skip.
EvictNoSkip(ctx) ==
    IF ~ctx.opts.ok
    THEN [ctx EXCEPT !.opts = [NoOptions EXCEPT !.ok = TRUE, !.evict = TRUE]]
    ELSE [ctx EXCEPT !.opts.evict = TRUE]

\* Evict(ctx)
Evict(ctx) ==
    IF ~ctx.opts.ok
    THEN [ctx EXCEPT !.opts = [NoOptions EXCEPT !.ok = TRUE, !.skip = TRUE, !.evict = TRUE]]
    ELSE [ctx EXCEPT !.opts.skip = TRUE, !.opts.evict = TRUE]

\* WithKey(ctx, key)
WithKey(ctx, key) ==
    IF ~ctx.opts.ok
    THEN [ctx EXCEPT !.opts = [NoOptions EXCEPT !.ok = TRUE, !.key = key]]
    ELSE [ctx EXCEPT !.opts.key = key]

\* WithTTL(ctx, ttl)
WithTTL(ctx, ttl) ==
    IF ~ctx.opts.ok
    THEN [ctx EXCEPT !.opts = [NoOptions EXCEPT !.ok = TRUE, !.ttl = ttl]]
    ELSE [ctx EXCEPT !.opts.ttl = ttl]

---------------------------------------------------------------------------
(* Driver.Query.                                                           *)

\* A hash function, given with the Hash option, that returns an error.
FailingHash(query, args) == [key |-> NoKey, err |-> "error"]

\* d.Hash: NewDriver installs DefaultHash, the Hash option another one.
Hash(c, query, args) ==
    IF c.hash = "FailingHash" THEN FailingHash(query, args) ELSE DefaultHash(query, args)

\* A variant of HashFailed: the error of d.Hash is ignored.
HashFailedNever(h) == FALSE

\* optionsFromContext gives up when d.Hash returns an error.
HashFailed(h) == h.err # "nil"

\* A variant of NeedsHash: the key is always derived from the statement.
NeedsHashAlways(opts) == TRUE

\* optionsFromContext calls d.Hash when the options carry no key.
NeedsHash(opts) == opts.key = NoKey

\* A variant of ttlOrDefault: the ttl of the call is taken as it is, zero
\* meaning no expiry.
ttlAsGiven(ttl, default) == ttl

\* optionsFromContext: if opts.ttl == 0 { opts.ttl = d.TTL }
ttlOrDefault(ttl, default) == IF ttl = 0 THEN default ELSE ttl

\* Driver.optionsFromContext; delFail: the level's DEL command fails.
\* hashed, deleted: whether d.Hash and d.Cache.Del were called.
optionsFromContext(c, ctx, s, query, args, delFail) ==
    LET o0 == IF ctx.opts.ok THEN ctx.opts ELSE NoOptions
        hashed == NeedsHash(o0)
        h == Hash(c, query, args)
        o1 == IF hashed THEN [o0 EXCEPT !.key = h.key] ELSE o0
        o2 == [o1 EXCEPT !.ttl = ttlOrDefault(o1.ttl, c.ttl)]
        d == CacheDel(c.cache, ctx, s, o2.key, delFail)
    IN IF hashed /\ HashFailed(h)
       THEN [opts |-> o0, s |-> s, err |-> "errSkip", hashed |-> hashed,
             deleted |-> FALSE]
       ELSE IF o2.evict /\ d.err # "nil"
       THEN [opts |-> o2, s |-> d.s, err |-> d.err, hashed |-> hashed,
             deleted |-> TRUE]
       ELSE IF o2.skip
       THEN [opts |-> o2, s |-> IF o2.evict THEN d.s ELSE s, err |-> "errSkip",
             hashed |-> hashed, deleted |-> o2.evict]
       ELSE [opts |-> o2, s |-> IF o2.evict THEN d.s ELSE s, err |-> "nil",
             hashed |-> hashed, deleted |-> o2.evict]

\* A variant of IsSelect that also takes the capitalised verb.
IsSelectOrTitle(query) ==
    \/ HasPrefix(query, SELECT)
    \/ HasPrefix(query, select)
    \/ HasPrefix(query, <<"S", "e", "l", "e", "c", "t">>)

\* The prefix test at the head of Driver.Query: does the statement look like a
\* standard query.
IsSelect(query) == HasPrefix(query, SELECT) \/ HasPrefix(query, select)

\* A variant of Lookup: an error of the store counts as not found.
LookupErrorAsMiss(err) ==
    CASE err = "nil" -> "hit"
      [] OTHER -> "miss"

\* A variant of Lookup: an error of the store fails the query.
LookupFailing(err) ==
    CASE err = "nil" -> "hit"
      [] err = ErrNotFound -> "miss"
      [] OTHER -> "fail"

\* The switch of Driver.Query on the error of d.Cache.Get.
Lookup(err) ==
    CASE err = "nil" -> "hit"
      [] err = ErrNotFound -> "miss"
      [] OTHER -> "forward"

\* The decision of Driver.Query: which path the call takes, what it leaves
\* in the stores and what it adds to the counters.
\*   forward: return d.Driver.Query(ctx, query, args, v), no recorder
\*   hit:     a repeater over the entry found
\*   miss:    d.Driver.Query and a recorder over its rows
\*   fail:    return an error of the cache driver
\* cacheErr: a store call of Query returned an error (not ErrNotFound).
QueryPath(c, ctx, s, t, query, args, env) ==
    LET o == optionsFromContext(c, ctx, s, query, args, env.delFail)
        g == CacheGet(c.cache, ctx, o.s, o.opts.key, t, env.getFail)
    IN IF ~IsSelect(query)
       THEN [path |-> "forward", s |-> s, gets |-> 0, hits |-> 0, opts |-> NoOptions,
             e |-> NoEntry, hashed |-> FALSE, deleted |-> FALSE, got |-> FALSE,
             cacheErr |-> FALSE]
       ELSE IF o.err # "nil"
       THEN [path |-> "forward", s |-> o.s, gets |-> 0, hits |-> 0, opts |-> o.opts,
             e |-> NoEntry, hashed |-> o.hashed, deleted |-> o.deleted, got |-> FALSE,
             cacheErr |-> o.err # "errSkip"]
       ELSE [path |-> Lookup(g.err), s |-> g.s, gets |-> 1,
             hits |-> IF g.err = "nil" THEN 1 ELSE 0, opts |-> o.opts,
             e |-> g.e, hashed |-> o.hashed, deleted |-> o.deleted, got |-> TRUE,
             cacheErr |-> g.err \notin {"nil", ErrNotFound}]

---------------------------------------------------------------------------
(* The caller's state: the call and the row handle it was given.           *)

Procs == {1}

NoRow == << >>

\* A caller that has not called Query yet.
Idle ==
    [pc |-> "idle", query |-> << >>, ctx |-> Background, key |-> NoKey, ttl |-> 0,
     kind |-> "none",
     \* the wrapped driver's row stream
     src |-> << >>, cur |-> NoRow, sclosed |-> FALSE, serr |-> FALSE,
     \* recorder.values / repeater.values, .columns, recorder.done
     values |-> << >>, columns |-> << >>, done |-> FALSE,
     \* what the caller saw: the rows scanned, what Query and Close
     \* returned, what the last Next returned, whether the row is unscanned
     out |-> << >>, qret |-> "none", cret |-> "none", lastNext |-> "none",
     fresh |-> FALSE,
     \* the column names a call of Columns returned to the caller
     cols |-> << >>,
     \* how often Next returned true
     trues |-> 0,
     \* what the wrapped driver's Query and the wrapped stream's Close returned
     uq |-> "none", uc |-> "none",
     \* what the call did: ran the wrapped driver, called d.Hash, Cache.Del,
     \* Cache.Get, Cache.Add, and whether a store call failed
     exec |-> FALSE, hashed |-> FALSE, deleted |-> FALSE, got |-> FALSE,
     added |-> FALSE, cacheErr |-> FALSE, addErr |-> FALSE]

\* The row stream of the wrapped driver: Next.  fail: the stream breaks.
StreamNext(r, fail) ==
    IF r.sclosed THEN [r EXCEPT !.lastNext = "false", !.cur = NoRow, !.fresh = FALSE]
    ELSE IF fail
    THEN [r EXCEPT !.lastNext = "false", !.cur = NoRow, !.fresh = FALSE,
                   !.sclosed = TRUE, !.serr = TRUE]
    ELSE IF r.src = << >>
    THEN [r EXCEPT !.lastNext = "false", !.cur = NoRow, !.fresh = FALSE,
                   !.sclosed = TRUE]
    ELSE [r EXCEPT !.lastNext = "true", !.cur = Head(r.src), !.src = Tail(r.src),
                   !.fresh = TRUE, !.trues = @ + 1]

\* The row stream's Scan fails without a current row.
StreamScanOk(r) == r.cur # NoRow

\* The row stream's Columns fails on a closed stream.
StreamColumnsOk(r) == ~r.sclosed

\* recorder.Next
recorderNext(r, fail) ==
    LET n == StreamNext(r, fail)
    IN [n EXCEPT !.done = (n.lastNext = "false")]

\* recorder.Scan: the raw values are copied, assigned, then appended.
recorderScan(r) ==
    IF ~StreamScanOk(r) THEN r
    ELSE [r EXCEPT !.values = Append(@, r.cur), !.out = Append(@, r.cur),
                   !.fresh = FALSE]

\* A variant of recorderColumns: the names are returned, not kept.
recorderColumnsUnrecorded(r) ==
    IF ~StreamColumnsOk(r) THEN r
    ELSE [r EXCEPT !.cols = DbColumns(r.query)]

\* recorder.Columns
recorderColumns(r) ==
    IF ~StreamColumnsOk(r) THEN r
    ELSE [r EXCEPT !.columns = DbColumns(r.query), !.cols = DbColumns(r.query)]

\* repeater.Columns
repeaterColumns(r) == [r EXCEPT !.cols = r.columns]

\* repeater.Next
repeaterNext(r) ==
    IF Len(r.values) > 0
    THEN [r EXCEPT !.lastNext = "true", !.fresh = TRUE, !.trues = @ + 1]
    ELSE [r EXCEPT !.lastNext = "false", !.fresh = FALSE]

\* repeater.Scan
repeaterScan(r) ==
    IF ~(Len(r.values) > 0) THEN r
    ELSE [r EXCEPT !.out = Append(@, Head(r.values)), !.values = Tail(@),
                   !.fresh = FALSE]

\* The wrapped stream handed out as it is (no recorder).
rawScan(r) ==
    IF ~StreamScanOk(r) THEN r
    ELSE [r EXCEPT !.out = Append(@, r.cur), !.fresh = FALSE]

\* A variant of recorderStores: the entry goes to onClose only while the
\* stream has not ended.
recorderStoresUnfinished(r) == ~r.done

\* recorder.Close: whether the recorded entry goes to onClose.
recorderStores(r) == r.serr = FALSE \/ r.done

---------------------------------------------------------------------------
(* The driver configurations NewDriver can build.                          *)

LRU0 == [kind |-> "lru", id |-> "L1", max |-> 0]          \* NewLRU(0)
LRUNop == [kind |-> "lru", id |-> "L1", max |-> 0 - 1]    \* NewLRU(-1)
LRU2 == [kind |-> "lru", id |-> "L2", max |-> 0]          \* NewLRU(0)
RedisLevel == [kind |-> "redis"]                          \* NewRedis(rdb)

\* Levels(a, b)
Levels(a, b) == [kind |-> "multi", levels |-> <<a, b>>]

\* ContextLevel()
ContextLevel == [kind |-> "ctx"]

\* NewDriver(drv, opts...)
NewDriver(cache, ttl, log) ==
    [cache |-> cache, ttl |-> ttl, log |-> log, hash |-> "DefaultHash"]

\* The Hash option: NewDriver(drv, ..., Hash(hash))
WithHash(c, hash) == [c EXCEPT !.hash = hash]

HasRedis == cfg.cache.kind = "multi" /\ \E i \in DOMAIN cfg.cache.levels :
                cfg.cache.levels[i].kind = "redis"

\* Whether a command of the Redis service may fail.
Fails == IF HasRedis THEN BOOLEAN ELSE {FALSE}

\* The contexts a request may start from.
Bases == IF cfg.cache.kind = "ctx"
         THEN {Background, NewContext(Background, "c1"), NewContext(Background, "c2")}
         ELSE {Background}

---------------------------------------------------------------------------
(* The actions.                                                            *)

\* Stores that hold nothing.
EmptyStores == [lru |-> [id \in LRUIds |-> << >>], rdb |-> [k \in TextKeys |-> NoBytes]]

\* A variant of ReturnsError: the error of the wrapped driver's Query is
\* returned on the forwarding paths only.
ReturnsErrorForwardOnly(path, qerr) == path = "fail" \/ (path = "forward" /\ qerr)

\* Driver.Query returns an error: its own, or the one of d.Driver.Query on
\* the forwarding paths and on a miss.
ReturnsError(path, qerr) == path = "fail" \/ (path \in {"forward", "miss"} /\ qerr)

\* The row handle Driver.Query leaves in v, by the path it took, and what
\* Query returns.  qerr: the wrapped driver's Query fails.
Handle(query, ctx, r, qerr) ==
    LET executes == r.path \in {"forward", "miss"}
        failed == ReturnsError(r.path, qerr)
    IN [Idle EXCEPT
        !.pc = IF failed THEN "failed" ELSE "rows",
        !.query = query,
        !.ctx = ctx,
        !.key = r.opts.key,
        !.ttl = r.opts.ttl,
        !.kind = IF failed THEN "none"
                 ELSE CASE r.path = "hit" -> "repeater"
                        [] r.path = "miss" -> "recorder"
                        [] OTHER -> "raw",
        !.src = IF executes /\ ~failed THEN DbRows(query) ELSE << >>,
        !.values = IF r.path = "hit" THEN r.e.Values ELSE << >>,
        !.columns = IF r.path = "hit" THEN r.e.Columns ELSE << >>,
        !.qret = CASE r.path = "fail" -> "error"
                   [] executes /\ qerr -> "dberr"
                   [] OTHER -> "nil",
        !.uq = CASE ~executes -> "none"
                 [] qerr -> "dberr"
                 [] OTHER -> "nil",
        !.exec = executes,
        !.hashed = r.hashed,
        !.deleted = r.deleted,
        !.got = r.got,
        !.cacheErr = r.cacheErr]

\* Driver.Query(ctx, query, args, v) by caller p.  env: what the wrapped
\* driver, the Redis service and the clock do during the call.
Query(p, query, args, ctx, env) ==
    /\ q[p].pc # "rows"
    /\ now + env.dt <= MaxTime
    /\ LET r == QueryPath(cfg, ctx, [lru |-> lru, rdb |-> rdb], now + env.dt,
                          query, args, env)
       IN /\ lru' = r.s.lru
          /\ rdb' = r.s.rdb
          /\ stats' = [stats EXCEPT !.Gets = @ + r.gets, !.Hits = @ + r.hits]
          /\ dbCalls' = dbCalls + (IF r.path \in {"forward", "miss"} THEN 1 ELSE 0)
          /\ q' = [q EXCEPT ![p] = Handle(query, ctx, r, env.qerr)]
    /\ now' = now + env.dt
    /\ calls' = calls + 1
    /\ UNCHANGED cfg

\* rows.Next() by caller p; fail: the wrapped stream breaks.
NextRow(p, fail) ==
    /\ q[p].pc = "rows"
    /\ q' = [q EXCEPT ![p] =
                CASE q[p].kind = "recorder" -> recorderNext(q[p], fail)
                  [] q[p].kind = "repeater" -> repeaterNext(q[p])
                  [] OTHER -> StreamNext(q[p], fail)]
    /\ UNCHANGED <<cfg, script, lru, rdb, now, stats, dbCalls, calls>>

\* rows.Scan(dest...) by caller p.
Scan(p) ==
    /\ q[p].pc = "rows"
    /\ q' = [q EXCEPT ![p] =
                CASE q[p].kind = "recorder" -> recorderScan(q[p])
                  [] q[p].kind = "repeater" -> repeaterScan(q[p])
                  [] OTHER -> rawScan(q[p])]
    /\ UNCHANGED <<cfg, script, lru, rdb, now, stats, dbCalls, calls>>

\* rows.Columns() by caller p.
Columns(p) ==
    /\ q[p].pc = "rows"
    /\ q[p].kind \in {"recorder", "repeater"}
    /\ q' = [q EXCEPT ![p] =
                IF q[p].kind = "recorder" THEN recorderColumns(q[p])
                ELSE repeaterColumns(q[p])]
    /\ UNCHANGED <<cfg, script, lru, rdb, now, stats, dbCalls, calls>>

\* The context of the call is cancelled: the wrapped stream closes itself
\* with an error while the caller is between two calls.
Cancel(p) ==
    /\ q[p].pc = "rows"
    /\ q[p].kind \in {"recorder", "raw"}
    /\ ~q[p].sclosed
    /\ q' = [q EXCEPT ![p] = [@ EXCEPT !.sclosed = TRUE, !.serr = TRUE,
                                       !.cur = NoRow, !.fresh = FALSE]]
    /\ UNCHANGED <<cfg, script, lru, rdb, now, stats, dbCalls, calls>>

\* What recorder.Close returns: the error of the wrapped stream's Close,
\* never the error of the store's Add.
recorderCloseRet(closeErr, addErr) == IF closeErr THEN "closeerr" ELSE "nil"

\* The onClose of Driver.Query counts a failed Add when a Log is set.
onCloseErrors(c, addErr) == IF addErr /\ c.log THEN 1 ELSE 0

\* A variant of recorderClose: onClose runs before the wrapped stream's Close
\* is called, whatever that Close then returns.
recorderCloseAddsFirst(p, closeErr, addFail) ==
    LET r == q[p]
        a == CacheAdd(cfg.cache, r.ctx, [lru |-> lru, rdb |-> rdb], r.key,
                      Entry(r.columns, r.values), r.ttl, now, addFail)
    IN /\ lru' = a.s.lru
       /\ rdb' = a.s.rdb
       /\ stats' = [stats EXCEPT !.Errors = @ + onCloseErrors(cfg, a.err # "nil")]
       /\ q' = [q EXCEPT ![p] =
                    [r EXCEPT !.pc = "closed", !.sclosed = TRUE, !.cur = NoRow,
                              !.fresh = FALSE,
                              !.uc = IF closeErr THEN "closeerr" ELSE "nil",
                              !.cret = recorderCloseRet(closeErr, a.err # "nil"),
                              !.added = TRUE, !.addErr = a.err # "nil"]]

\* recorder.Close with the onClose of Driver.Query; closeErr: the wrapped
\* stream's Close fails; addFail: the level's SET command fails.
recorderClose(p, closeErr, addFail) ==
    LET r == q[p]
        a == CacheAdd(cfg.cache, r.ctx, [lru |-> lru, rdb |-> rdb], r.key,
                      Entry(r.columns, r.values), r.ttl, now, addFail)
        closed == [r EXCEPT !.pc = "closed", !.sclosed = TRUE, !.cur = NoRow,
                            !.fresh = FALSE,
                            !.uc = IF closeErr THEN "closeerr" ELSE "nil"]
    IN IF closeErr
       THEN /\ q' = [q EXCEPT ![p] =
                        [closed EXCEPT !.cret = recorderCloseRet(closeErr, FALSE)]]
            /\ UNCHANGED <<lru, rdb, stats>>
       ELSE IF recorderStores(r)
       THEN /\ lru' = a.s.lru
            /\ rdb' = a.s.rdb
            /\ stats' = [stats EXCEPT !.Errors = @ + onCloseErrors(cfg, a.err # "nil")]
            /\ q' = [q EXCEPT ![p] =
                        [closed EXCEPT !.cret = recorderCloseRet(closeErr, a.err # "nil"),
                                       !.added = TRUE, !.addErr = a.err # "nil"]]
       ELSE /\ q' = [q EXCEPT ![p] =
                        [closed EXCEPT !.cret = recorderCloseRet(closeErr, FALSE)]]
            /\ UNCHANGED <<lru, rdb, stats>>

\* rows.Close() by caller p.
Close(p, closeErr, addFail) ==
    /\ q[p].pc = "rows"
    /\ CASE q[p].kind = "recorder" -> recorderClose(p, closeErr, addFail)
         [] q[p].kind = "repeater" ->
                /\ q' = [q EXCEPT ![p] = [@ EXCEPT !.pc = "closed", !.fresh = FALSE,
                                                  !.cret = "nil"]]
                /\ UNCHANGED <<lru, rdb, stats>>
         [] OTHER ->
                /\ q' = [q EXCEPT ![p] = [@ EXCEPT !.pc = "closed", !.sclosed = TRUE,
                              !.cur = NoRow, !.fresh = FALSE,
                              !.cret = IF closeErr THEN "closeerr" ELSE "nil",
                              !.uc = IF closeErr THEN "closeerr" ELSE "nil"]]
                /\ UNCHANGED <<lru, rdb, stats>>
    /\ UNCHANGED <<cfg, script, now, dbCalls, calls>>

---------------------------------------------------------------------------
(* A free caller: any statement, any context, any order of Next, Scan,     *)
(* Columns and Close, over a driver and a store that may fail.             *)

Ctxs == UNION {{b, Skip(b), Evict(b), WithKey(b, CacheKey)} : b \in Bases}

FreeStmts == {SelA, SelB, Insert, Mixed, Spaced}

Envs == [qerr : BOOLEAN, delFail : Fails, getFail : Fails, dt : {0}]

FreeQuery(p) ==
    /\ script = << >>
    /\ calls < MaxFree
    /\ \E query \in FreeStmts, ctx \in Ctxs, env \in Envs :
            Query(p, query, NoArgs, ctx, env)
    /\ UNCHANGED script

FreeNext(p) == q[p].trues < MaxNexts /\ \E fail \in BOOLEAN : NextRow(p, fail)

FreeScan(p) == Len(q[p].out) < MaxScans /\ Scan(p)

FreeClose(p) == \E closeErr \in BOOLEAN, addFail \in Fails : Close(p, closeErr, addFail)

Next ==
    \E p \in Procs :
        \/ FreeQuery(p)
        \/ FreeNext(p)
        \/ FreeScan(p)
        \/ Columns(p)
        \/ Cancel(p)
        \/ FreeClose(p)

FreeConfigs ==
    {NewDriver(LRU0, 0, FALSE), NewDriver(Levels(LRU0, RedisLevel), 0, TRUE)}

\* The stores a new driver may be built over: empty, filled by an earlier
\* driver with the rows of SelA under both keys, or holding bytes under the
\* key of SelA that are no entry.
Filled(c) ==
    LET e == Entry(<< >>, DbRows(SelA))
        a == CacheAdd(c.cache, Background, EmptyStores, DefaultHash(SelA, NoArgs).key,
                      e, 0, 0, FALSE)
    IN CacheAdd(c.cache, Background, a.s, CacheKey, e, 0, 0, FALSE).s

Foreign ==
    [EmptyStores EXCEPT !.rdb[Sprint(DefaultHash(SelA, NoArgs).key)] = <<"bad">>]

Init ==
    /\ cfg \in FreeConfigs
    /\ script = << >>
    /\ \E s \in {EmptyStores, Filled(cfg)} \cup (IF HasRedis THEN {Foreign} ELSE {}) :
            lru = s.lru /\ rdb = s.rdb
    /\ now = 0
    /\ stats = [Gets |-> 0, Hits |-> 0, Errors |-> 0]
    /\ q = [p \in Procs |-> Idle]
    /\ dbCalls = 0
    /\ calls = 0

Spec == Init /\ [][Next]_vars

\* The free caller over drivers whose Add or whose hash function can fail:
\* a two-level store with Redis and no Log, and a driver with a Log whose
\* hash function returns an error.
FaultConfigs ==
    {NewDriver(Levels(LRU0, RedisLevel), 0, FALSE),
     WithHash(NewDriver(LRU0, 0, TRUE), "FailingHash")}

FaultInit ==
    /\ cfg \in FaultConfigs
    /\ script = << >>
    /\ \E s \in {EmptyStores, Filled(cfg)} : lru = s.lru /\ rdb = s.rdb
    /\ now = 0
    /\ stats = [Gets |-> 0, Hits |-> 0, Errors |-> 0]
    /\ q = [p \in Procs |-> Idle]
    /\ dbCalls = 0
    /\ calls = 0

FaultSpec == FaultInit /\ [][Next]_vars

---------------------------------------------------------------------------
(* A test: a driver built over empty stores and a list of calls made one   *)
(* after another.  Every query is iterated as expectQuery of the tests     *)
(* does: Next until it returns false, one Scan per row, then Close.  The   *)
(* wrapped driver and the stores work.                                     *)

QueryStep(query, ctx) == [op |-> "query", query |-> query, ctx |-> ctx, key |-> NoKey]

\* drv.Cache.Del(ctx, key), called by the test itself.
DelStep(key) == [op |-> "del", query |-> << >>, ctx |-> Background, key |-> key]

Plain == QueryStep(SelA, Background)
PlainB == QueryStep(SelB, Background)
SkipA == QueryStep(SelA, Skip(Background))
EvictA == QueryStep(SelA, Evict(Background))
EvictB == QueryStep(SelB, Evict(Background))
TtlA == QueryStep(SelA, WithTTL(Background, 0 - 1))
KeyedA == QueryStep(SelA, WithKey(Background, CacheKey))
DelKey == DelStep(CacheKey)
C1A == QueryStep(SelA, NewContext(Background, "c1"))
C2A == QueryStep(SelA, NewContext(Background, "c2"))

\* The lists of 1..MaxCalls calls over the given steps.
Scripts(steps) == UNION {[1..n -> steps] : n \in 1..MaxCalls}

Under(configs, scripts) == {[cfg |-> c, script |-> s] : c \in configs, s \in scripts}

\* TestDriver_Levels: one statement, again and again.
LevelsTests ==
    Under({NewDriver(LRU0, 0, FALSE),
           NewDriver(Levels(LRUNop, LRU2), 0, FALSE),
           NewDriver(Levels(LRUNop, RedisLevel), 0, FALSE)},
          Scripts({Plain}) \cup Scripts({PlainB}))

\* TestDriver_ContextOptions, Skip and Evict.
OptionsTests ==
    Under({NewDriver(LRU0, 0, FALSE),
           NewDriver(Levels(LRU0, LRU2), 0, FALSE),
           NewDriver(Levels(LRU0, RedisLevel), 0, FALSE)},
          Scripts({Plain, SkipA}) \cup Scripts({Plain, EvictA}))

\* TestDriver_ContextLevel/TTL and TestDriver_ContextOptions/WithTTL.
TTLTests ==
    Under({NewDriver(LRU0, 0 - 1, FALSE)}, Scripts({Plain}))
        \cup Under({NewDriver(LRU0, 0, FALSE)}, Scripts({TtlA}))
        \cup Under({NewDriver(ContextLevel, 0 - 1, FALSE)}, Scripts({C1A}))

\* TestDriver_ContextLevel, One and Multi.
ContextTests == Under({NewDriver(ContextLevel, 0, FALSE)}, Scripts({C1A, C2A}))

\* TestContextLevel/WithoutCache: request-scope mode, no cache on the context.
NoCacheTests == Under({NewDriver(ContextLevel, 0, FALSE)}, Scripts({PlainB, EvictB}))

\* TestDriver_ContextOptions/WithKey.
KeyTests == Under({NewDriver(LRU0, 0, FALSE)}, Scripts({KeyedA, Plain, DelKey}))

Tests ==
    LevelsTests \cup OptionsTests \cup TTLTests \cup ContextTests \cup KeyTests
        \cup NoCacheTests

TestInit ==
    /\ \E t \in Tests : cfg = t.cfg /\ script = t.script
    /\ lru = EmptyStores.lru
    /\ rdb = EmptyStores.rdb
    /\ now = 0
    /\ stats = [Gets |-> 0, Hits |-> 0, Errors |-> 0]
    /\ q = [p \in Procs |-> Idle]
    /\ dbCalls = 0
    /\ calls = 0

\* Time passes between two calls where entries can expire.
Clock ==
    IF cfg.ttl # 0 \/ \E i \in DOMAIN script : script[i].ctx.opts.ttl # 0
    THEN {0, 1}
    ELSE {0}

\* The next call of the test is a query.
TestQuery(p) ==
    /\ calls < Len(script)
    /\ script[calls + 1].op = "query"
    /\ \E dt \in Clock :
            Query(p, script[calls + 1].query, NoArgs, script[calls + 1].ctx,
                  [qerr |-> FALSE, delFail |-> FALSE, getFail |-> FALSE, dt |-> dt])
    /\ UNCHANGED script

\* The next call of the test deletes a key from the driver's cache.
TestDel(p) ==
    /\ calls < Len(script)
    /\ script[calls + 1].op = "del"
    /\ q[p].pc # "rows"
    /\ LET d == CacheDel(cfg.cache, script[calls + 1].ctx, [lru |-> lru, rdb |-> rdb],
                         script[calls + 1].key, FALSE)
       IN lru' = d.s.lru /\ rdb' = d.s.rdb
    /\ q' = [q EXCEPT ![p] = Idle]
    /\ calls' = calls + 1
    /\ UNCHANGED <<cfg, script, now, stats, dbCalls>>

\* expectQuery: for rows.Next() { rows.Scan(&v) }; rows.Close()
TestNextRow(p) ==
    /\ script # << >>
    /\ q[p].lastNext # "false"
    /\ ~q[p].fresh
    /\ NextRow(p, FALSE)

TestScan(p) ==
    /\ script # << >>
    /\ q[p].fresh
    /\ Scan(p)

TestClose(p) ==
    /\ script # << >>
    /\ q[p].lastNext = "false"
    /\ Close(p, FALSE, FALSE)

TestNext ==
    \E p \in Procs :
        \/ TestQuery(p)
        \/ TestDel(p)
        \/ TestNextRow(p)
        \/ TestScan(p)
        \/ TestClose(p)

TestSpec == TestInit /\ [][TestNext]_vars

---------------------------------------------------------------------------
(* The cache called directly, as drv.Cache.Del in the tests: any sequence  *)
(* of Add, Get and Del on a multi-level cache, while another client of the *)
(* Redis service may write bytes of its own.                               *)

StoreKeys == {DefaultHash(SelA, NoArgs).key, CacheKey}

StoreEntries == {Entry(<< >>, DbRows(SelA)), Entry(DbColumns(SelB), DbRows(Insert))}

\* What the caller keeps of a direct call: the call and its result.
StoreCall(op, k, fail, e, err) ==
    [pc |-> op, key |-> k, fail |-> fail, e |-> e, err |-> err]

\* d.Cache.Add(ctx, k, e, 0)
StoreAdd(p) ==
    /\ calls < MaxOps
    /\ \E k \in StoreKeys, e \in StoreEntries, fail \in Fails :
            LET r == CacheAdd(cfg.cache, Background, [lru |-> lru, rdb |-> rdb],
                              k, e, 0, now, fail)
            IN /\ lru' = r.s.lru
               /\ rdb' = r.s.rdb
               /\ q' = [q EXCEPT ![p] = StoreCall("add", k, fail, e, r.err)]
    /\ calls' = calls + 1
    /\ UNCHANGED <<cfg, script, now, stats, dbCalls>>

\* d.Cache.Get(ctx, k)
StoreGet(p) ==
    /\ calls < MaxOps
    /\ \E k \in StoreKeys, fail \in Fails :
            LET r == CacheGet(cfg.cache, Background, [lru |-> lru, rdb |-> rdb],
                              k, now, fail)
            IN /\ lru' = r.s.lru
               /\ rdb' = r.s.rdb
               /\ q' = [q EXCEPT ![p] = StoreCall("get", k, fail, r.e, r.err)]
    /\ calls' = calls + 1
    /\ UNCHANGED <<cfg, script, now, stats, dbCalls>>

\* d.Cache.Del(ctx, k)
StoreDel(p) ==
    /\ calls < MaxOps
    /\ \E k \in StoreKeys, fail \in Fails :
            LET r == CacheDel(cfg.cache, Background, [lru |-> lru, rdb |-> rdb], k, fail)
            IN /\ lru' = r.s.lru
               /\ rdb' = r.s.rdb
               /\ q' = [q EXCEPT ![p] = StoreCall("del", k, fail, NoEntry, r.err)]
    /\ calls' = calls + 1
    /\ UNCHANGED <<cfg, script, now, stats, dbCalls>>

\* Another client of the Redis service stores bytes that are no entry.
ForeignWrite ==
    /\ HasRedis
    /\ \E k \in StoreKeys :
            /\ rdb[Sprint(k)] # <<"bad">>
            /\ rdb' = [rdb EXCEPT ![Sprint(k)] = <<"bad">>]
    /\ UNCHANGED <<cfg, script, lru, now, stats, q, dbCalls, calls>>

StoreNext ==
    \/ \E p \in Procs : StoreAdd(p) \/ StoreGet(p) \/ StoreDel(p)
    \/ ForeignWrite

StoreConfigs ==
    {NewDriver(Levels(LRU0, LRU2), 0, FALSE),
     NewDriver(Levels(LRU0, RedisLevel), 0, FALSE),
     NewDriver(Levels(RedisLevel, LRU2), 0, FALSE)}

StoreInit ==
    /\ cfg \in StoreConfigs
    /\ script = << >>
    /\ lru = EmptyStores.lru
    /\ rdb = EmptyStores.rdb
    /\ now = 0
    /\ stats = [Gets |-> 0, Hits |-> 0, Errors |-> 0]
    /\ q = [p \in Procs |-> Idle]
    /\ dbCalls = 0
    /\ calls = 0

StoreSpec == StoreInit /\ [][StoreNext]_vars

---------------------------------------------------------------------------
(* Concurrent callers of one driver.  Driver.Query is taken apart into the *)
(* steps another goroutine can come between: the options (with the Del of  *)
(* Evict), the atomic add to Gets, d.Cache.Get, the atomic add to Hits,    *)
(* and d.Driver.Query.  Each store call is one step (the LRU's mutex, one  *)
(* Redis command).                                                         *)

Callers == {1, 2}

\* The callers run one statement, whose result set is empty: Next returns
\* false and Scan is never called.
ConcStmts == {SelB}

ConcCtxs == {Background, Skip(Background)}

\* A call of Driver.Query on its way: the step it is at and what it has so far.
Pending(pc, query, ctx, r) == [pc |-> pc, query |-> query, ctx |-> ctx, r |-> r]

\* Driver.Query up to the result of optionsFromContext.
ConcOptions(p) ==
    /\ q[p].pc \in {"idle", "closed", "failed"}
    /\ calls < MaxConc
    /\ \E query \in ConcStmts, ctx \in ConcCtxs :
            LET o == optionsFromContext(cfg, ctx, [lru |-> lru, rdb |-> rdb], query,
                                        NoArgs, FALSE)
                sel == IsSelect(query)
                forward == ~sel \/ o.err # "nil"
                r == [path |-> IF forward THEN "forward" ELSE "none",
                      opts |-> IF sel THEN o.opts ELSE NoOptions,
                      e |-> NoEntry,
                      hashed |-> sel /\ o.hashed,
                      deleted |-> sel /\ o.deleted,
                      got |-> FALSE,
                      cacheErr |-> sel /\ o.err \notin {"nil", "errSkip"}]
            IN /\ lru' = IF sel THEN o.s.lru ELSE lru
               /\ rdb' = IF sel THEN o.s.rdb ELSE rdb
               /\ q' = [q EXCEPT ![p] =
                            Pending(IF forward THEN "exec" ELSE "gets", query, ctx, r)]
    /\ calls' = calls + 1
    /\ UNCHANGED <<cfg, script, now, stats, dbCalls>>

\* A variant of ConcGets: the lookup is not counted.
ConcGetsUncounted(p) ==
    /\ q[p].pc = "gets"
    /\ q' = [q EXCEPT ![p] = [@ EXCEPT !.pc = "get"]]
    /\ UNCHANGED <<cfg, script, lru, rdb, now, stats, dbCalls, calls>>

\* atomic.AddUint64(&d.stats.Gets, 1)
ConcGets(p) ==
    /\ q[p].pc = "gets"
    /\ stats' = [stats EXCEPT !.Gets = @ + 1]
    /\ q' = [q EXCEPT ![p] = [@ EXCEPT !.pc = "get"]]
    /\ UNCHANGED <<cfg, script, lru, rdb, now, dbCalls, calls>>

\* d.Cache.Get(ctx, opts.key) and the switch on its error.
ConcGet(p) ==
    /\ q[p].pc = "get"
    /\ LET c == q[p]
           g == CacheGet(cfg.cache, c.ctx, [lru |-> lru, rdb |-> rdb], c.r.opts.key,
                         now, FALSE)
           r == [c.r EXCEPT !.path = Lookup(g.err), !.e = g.e, !.got = TRUE,
                            !.cacheErr = g.err \notin {"nil", ErrNotFound}]
       IN /\ lru' = g.s.lru
          /\ rdb' = g.s.rdb
          /\ q' = [q EXCEPT ![p] =
                    Pending(IF r.path = "hit" THEN "hits" ELSE "exec", c.query, c.ctx, r)]
    /\ UNCHANGED <<cfg, script, now, stats, dbCalls, calls>>

\* atomic.AddUint64(&d.stats.Hits, 1) and the repeater.
ConcHits(p) ==
    /\ q[p].pc = "hits"
    /\ stats' = [stats EXCEPT !.Hits = @ + 1]
    /\ q' = [q EXCEPT ![p] = Handle(q[p].query, q[p].ctx, q[p].r, FALSE)]
    /\ UNCHANGED <<cfg, script, lru, rdb, now, dbCalls, calls>>

\* d.Driver.Query and, on a miss, the recorder.
ConcExec(p) ==
    /\ q[p].pc = "exec"
    /\ dbCalls' = dbCalls + (IF q[p].r.path \in {"forward", "miss"} THEN 1 ELSE 0)
    /\ q' = [q EXCEPT ![p] = Handle(q[p].query, q[p].ctx, q[p].r, FALSE)]
    /\ UNCHANGED <<cfg, script, lru, rdb, now, stats, calls>>

ConcNextRow(p) == q[p].pc = "rows" /\ q[p].trues < MaxNexts /\ NextRow(p, FALSE)

ConcClose(p) == \E addFail \in Fails : Close(p, FALSE, addFail)

ConcNext ==
    \E p \in Callers :
        \/ ConcOptions(p)
        \/ ConcGets(p)
        \/ ConcGet(p)
        \/ ConcHits(p)
        \/ ConcExec(p)
        \/ ConcNextRow(p)
        \/ Columns(p)
        \/ ConcClose(p)

ConcConfigs ==
    {NewDriver(LRU0, 0, FALSE), NewDriver(Levels(LRU0, RedisLevel), 0, TRUE)}

ConcInit ==
    /\ cfg \in ConcConfigs
    /\ script = << >>
    /\ lru = EmptyStores.lru
    /\ rdb = EmptyStores.rdb
    /\ now = 0
    /\ stats = [Gets |-> 0, Hits |-> 0, Errors |-> 0]
    /\ q = [p \in Callers |-> Idle]
    /\ dbCalls = 0
    /\ calls = 0

ConcSpec == ConcInit /\ [][ConcNext]_vars

---------------------------------------------------------------------------
(* The LRU under concurrent use, at the level of its sync.RWMutex.  A      *)
(* thread is inside the lock between the step that takes it and the step   *)
(* that does the work and releases it; who holds the lock is read off the  *)
(* threads' positions.                                                     *)

Threads == {1, 2}

\* A thread outside any call of the LRU.  val: what the lookup of Get found;
\* gone: what the Remove of Get took out of the cache.
LruIdle ==
    [pc |-> "idle", op |-> "none", k |-> NoKey, e |-> NoEntry, ttl |-> 0,
     ok |-> FALSE, val |-> [typ |-> "none"], ret |-> "none",
     gone |-> [typ |-> "none"]]

\* Thread t holds l.mu for reading, for writing, at all.
Reader(t) == q[t].pc = "rlocked"

\* A variant of Writer: Add unlocks only on its successful return (no deferred
\* Unlock), so a thread whose Add failed keeps the lock until its next call.
WriterAfterFailedAdd(t) ==
    \/ q[t].pc \in {"locked", "expired.locked"}
    \/ q[t].pc = "done" /\ q[t].op = "add" /\ q[t].ret # "nil"

Writer(t) == q[t].pc \in {"locked", "expired.locked"}

Inside(t) == Reader(t) \/ Writer(t)

\* l.mu.RLock() succeeds while no thread holds the lock for writing;
\* l.mu.Lock() while no thread holds it at all.
CanRLock(t) == \A u \in Threads \ {t} : ~Writer(u)

CanLock(t) == \A u \in Threads \ {t} : ~Inside(u)

\* What thread t does inside the lock changes the cache's structure:
\* Cache.Add and Cache.Remove always, Cache.Get when it finds the key
\* (it moves the element to the front of the list).
Modifies(t) ==
    \/ Writer(t)
    \/ Reader(t) /\ Has(lru[LRU0.id], q[t].k)

\* Thread t works inside the lock while another thread is inside it, and one
\* of the two changes the structure.
Racing(t) ==
    \E u \in Threads \ {t} : Inside(u) /\ (Modifies(t) \/ Modifies(u))

\* What unsynchronised changes of the list may leave: its elements in any order.
Scrambled(items) ==
    {s \in [DOMAIN items -> {items[i] : i \in DOMAIN items}] :
        \A i, j \in DOMAIN items : i # j => s[i] # s[j]}

\* A thread calls l.Add(ctx, k, e, ttl), l.Get(ctx, k) or l.Del(ctx, k).
LruCall(t) ==
    /\ q[t].pc \in {"idle", "done"}
    /\ calls < MaxLruOps
    /\ \E op \in {"add", "get", "del"}, k \in StoreKeys, ttl \in {0, 1} :
            /\ op # "add" => ttl = 0
            /\ q' = [q EXCEPT ![t] = [LruIdle EXCEPT !.pc = "start", !.op = op, !.k = k,
                        !.e = IF op = "add" THEN Entry(<< >>, DbRows(SelA)) ELSE NoEntry,
                        !.ttl = ttl]]
    /\ calls' = calls + 1
    /\ UNCHANGED <<cfg, script, lru, rdb, now, stats, dbCalls>>

\* LRU.Get: l.mu.RLock()
LruRLock(t) ==
    /\ q[t].pc = "start"
    /\ q[t].op = "get"
    /\ CanRLock(t)
    /\ q' = [q EXCEPT ![t] = [@ EXCEPT !.pc = "rlocked"]]
    /\ UNCHANGED <<cfg, script, lru, rdb, now, stats, dbCalls, calls>>

\* LRU.Get: e, ok := l.Cache.Get(k); l.mu.RUnlock()
LruLookup(t) ==
    /\ q[t].pc = "rlocked"
    /\ LET items == lru[LRU0.id]
           ok == Has(items, q[t].k)
       IN /\ IF Racing(t)
             THEN \E s \in Scrambled(items) : lru' = [lru EXCEPT ![LRU0.id] = s]
             ELSE lru' = [lru EXCEPT ![LRU0.id] = lruCacheGet(items, q[t].k)]
          /\ q' = [q EXCEPT ![t] = [@ EXCEPT !.pc = "looked", !.ok = ok,
                        !.val = IF ok THEN ItemOf(items, q[t].k).val ELSE [typ |-> "none"]]]
    /\ UNCHANGED <<cfg, script, rdb, now, stats, dbCalls, calls>>

\* LRU.Get: the return on !ok and the type switch with its test of the expiry.
LruSwitch(t) ==
    /\ q[t].pc = "looked"
    /\ q' = [q EXCEPT ![t] =
                IF ~q[t].ok THEN [@ EXCEPT !.pc = "done", !.ret = ErrNotFound]
                ELSE IF q[t].val.typ = "Entry" THEN [@ EXCEPT !.pc = "done", !.ret = "nil"]
                ELSE IF Before(now, q[t].val.expiry)
                THEN [@ EXCEPT !.pc = "done", !.ret = "nil"]
                ELSE [@ EXCEPT !.pc = "expired"]]
    /\ UNCHANGED <<cfg, script, lru, rdb, now, stats, dbCalls, calls>>

\* LRU.Get on an expired entry: l.mu.Lock()
LruLockExpired(t) ==
    /\ q[t].pc = "expired"
    /\ CanLock(t)
    /\ q' = [q EXCEPT ![t] = [@ EXCEPT !.pc = "expired.locked"]]
    /\ UNCHANGED <<cfg, script, lru, rdb, now, stats, dbCalls, calls>>

\* LRU.Get on an expired entry: l.Cache.Remove(k); l.mu.Unlock()
LruRemoveExpired(t) ==
    /\ q[t].pc = "expired.locked"
    /\ lru' = [lru EXCEPT ![LRU0.id] = Without(@, q[t].k)]
    /\ q' = [q EXCEPT ![t] = [@ EXCEPT !.pc = "done", !.ret = ErrNotFound,
                !.gone = IF Has(lru[LRU0.id], q[t].k)
                         THEN ItemOf(lru[LRU0.id], q[t].k).val
                         ELSE [typ |-> "none"]]]
    /\ UNCHANGED <<cfg, script, rdb, now, stats, dbCalls, calls>>

\* LRU.Add and LRU.Del: l.mu.Lock()
LruLock(t) ==
    /\ q[t].pc = "start"
    /\ q[t].op \in {"add", "del"}
    /\ CanLock(t)
    /\ q' = [q EXCEPT ![t] = [@ EXCEPT !.pc = "locked"]]
    /\ UNCHANGED <<cfg, script, lru, rdb, now, stats, dbCalls, calls>>

\* LRU.Add: the copy through the codec, l.Cache.Add and the deferred Unlock.
LruAddLocked(t) ==
    /\ q[t].pc = "locked"
    /\ q[t].op = "add"
    /\ LET a == LRUAdd(LRU0, [lru |-> lru, rdb |-> rdb], q[t].k, q[t].e, q[t].ttl, now)
       IN /\ lru' = a.s.lru
          /\ q' = [q EXCEPT ![t] = [@ EXCEPT !.pc = "done", !.ret = a.err]]
    /\ UNCHANGED <<cfg, script, rdb, now, stats, dbCalls, calls>>

\* LRU.Del: l.Cache.Remove(k); l.mu.Unlock()
LruDelLocked(t) ==
    /\ q[t].pc = "locked"
    /\ q[t].op = "del"
    /\ LET d == LRUDel(LRU0, [lru |-> lru, rdb |-> rdb], q[t].k)
       IN /\ lru' = d.s.lru
          /\ q' = [q EXCEPT ![t] = [@ EXCEPT !.pc = "done", !.ret = d.err]]
    /\ UNCHANGED <<cfg, script, rdb, now, stats, dbCalls, calls>>

\* Time passes.
LruTick ==
    /\ now < MaxTime
    /\ now' = now + 1
    /\ UNCHANGED <<cfg, script, lru, rdb, stats, q, dbCalls, calls>>

LruNext ==
    \/ \E t \in Threads :
            \/ LruCall(t)
            \/ LruRLock(t)
            \/ LruLookup(t)
            \/ LruSwitch(t)
            \/ LruLockExpired(t)
            \/ LruRemoveExpired(t)
            \/ LruLock(t)
            \/ LruAddLocked(t)
            \/ LruDelLocked(t)
    \/ LruTick

LruInit ==
    /\ cfg = NewDriver(LRU0, 0, FALSE)
    /\ script = << >>
    /\ lru = EmptyStores.lru
    /\ rdb = EmptyStores.rdb
    /\ now = 0
    /\ stats = [Gets |-> 0, Hits |-> 0, Errors |-> 0]
    /\ q = [t \in Threads |-> LruIdle]
    /\ dbCalls = 0
    /\ calls = 0

LruSpec == LruInit /\ [][LruNext]_vars

---------------------------------------------------------------------------
(* Driver.Query with arguments of any type: v may be something other than  *)
(* *sql.Rows and args something other than []any.                          *)

\* fmt.Errorf("entcache: invalid type %T. expect ...")
TypeError == "typeerr"

\* What the caller holds after a call that gave it no row handle of the
\* decorator: the types it passed, what Query returned and whether the
\* wrapped driver ran.
Untyped(query, ctx, argsOk, vOk, ret, ran) ==
    [Idle EXCEPT !.pc = IF ret = "nil" THEN "returned" ELSE "failed",
                 !.query = query, !.ctx = ctx, !.qret = ret,
                 !.uq = IF ran THEN ret ELSE "none", !.exec = ran]
        @@ [argsOk |-> argsOk, vOk |-> vOk]

\* Driver.Query(ctx, query, args, v) where v is a *sql.Rows iff vOk and
\* args is a []any iff argsOk.
QueryAny(p, query, argsOk, vOk, ctx, env) ==
    IF argsOk /\ vOk THEN Query(p, query, NoArgs, ctx, env)
    ELSE /\ q[p].pc # "rows"
         /\ IF ~IsSelect(query)
            THEN \* return d.Driver.Query(ctx, query, args, v)
                 /\ dbCalls' = dbCalls + 1
                 /\ q' = [q EXCEPT ![p] = Untyped(query, ctx, argsOk, vOk,
                                IF env.qerr THEN "dberr" ELSE "nil", TRUE)]
            ELSE \* the two type assertions
                 /\ dbCalls' = dbCalls
                 /\ q' = [q EXCEPT ![p] = Untyped(query, ctx, argsOk, vOk,
                                                 TypeError, FALSE)]
         /\ calls' = calls + 1
         /\ UNCHANGED <<cfg, lru, rdb, now, stats>>

TypeStmts == {SelA, Insert, Spaced}

TypeQuery(p) ==
    /\ calls < MaxFree
    /\ \E query \in TypeStmts, argsOk \in BOOLEAN, vOk \in BOOLEAN,
          ctx \in {Background, Evict(Background)}, env \in Envs :
            QueryAny(p, query, argsOk, vOk, ctx, env)
    /\ UNCHANGED script

TypeNext ==
    \E p \in Procs :
        \/ TypeQuery(p)
        \/ FreeNext(p)
        \/ FreeScan(p)
        \/ FreeClose(p)

TypeInit ==
    /\ cfg \in FreeConfigs
    /\ script = << >>
    /\ \E s \in {EmptyStores, Filled(cfg)} : lru = s.lru /\ rdb = s.rdb
    /\ now = 0
    /\ stats = [Gets |-> 0, Hits |-> 0, Errors |-> 0]
    /\ q = [p \in Procs |-> Idle]
    /\ dbCalls = 0
    /\ calls = 0

TypeSpec == TypeInit /\ [][TypeNext]_vars

---------------------------------------------------------------------------
(* One LRU of any capacity, alone or as the first of two levels, called    *)
(* directly: any sequence of Add, Get and Del with any ttl, while time     *)
(* passes.                                                                 *)

\* NewLRU(n)
NewLRU(n) == [kind |-> "lru", id |-> "L1", max |-> n]

CapKeys == {DefaultHash(SelA, NoArgs).key, DefaultHash(SelB, NoArgs).key, CacheKey}

CapTTLs == {0, 1, 0 - 1}

\* The keys in the order the caller touched them last, the latest first.
Touch(touched, k) == <<k>> \o SelectSeq(touched, LAMBDA x : x # k)

Untouch(touched, k) == SelectSeq(touched, LAMBDA x : x # k)

\* What the caller keeps of a call: the call, its result, and the order in
\* which it touched the keys.
CapCall(op, k, ttl, e, err, touched) ==
    [pc |-> op, key |-> k, ttl |-> ttl, e |-> e, err |-> err, touched |-> touched]

CapIdle == CapCall("idle", NoKey, 0, NoEntry, "nil", << >>)

\* d.Cache.Add(ctx, k, e, ttl)
CapAdd(p) ==
    /\ calls < MaxLruCalls
    /\ \E k \in CapKeys, ttl \in CapTTLs :
            LET e == Entry(<< >>, DbRows(SelA))
                r == CacheAdd(cfg.cache, Background, [lru |-> lru, rdb |-> rdb],
                              k, e, ttl, now, FALSE)
            IN /\ lru' = r.s.lru
               /\ rdb' = r.s.rdb
               /\ q' = [q EXCEPT ![p] =
                            CapCall("add", k, ttl, e, r.err, Touch(q[p].touched, k))]
    /\ calls' = calls + 1
    /\ UNCHANGED <<cfg, script, now, stats, dbCalls>>

\* d.Cache.Get(ctx, k)
CapGet(p) ==
    /\ calls < MaxLruCalls
    /\ \E k \in CapKeys :
            LET r == CacheGet(cfg.cache, Background, [lru |-> lru, rdb |-> rdb],
                              k, now, FALSE)
            IN /\ lru' = r.s.lru
               /\ rdb' = r.s.rdb
               /\ q' = [q EXCEPT ![p] =
                            CapCall("get", k, 0, r.e, r.err,
                                    IF r.err = "nil" THEN Touch(q[p].touched, k)
                                    ELSE Untouch(q[p].touched, k))]
    /\ calls' = calls + 1
    /\ UNCHANGED <<cfg, script, now, stats, dbCalls>>

\* d.Cache.Del(ctx, k)
CapDel(p) ==
    /\ calls < MaxLruCalls
    /\ \E k \in CapKeys :
            LET r == CacheDel(cfg.cache, Background, [lru |-> lru, rdb |-> rdb], k, FALSE)
            IN /\ lru' = r.s.lru
               /\ rdb' = r.s.rdb
               /\ q' = [q EXCEPT ![p] =
                            CapCall("del", k, 0, NoEntry, r.err, Untouch(q[p].touched, k))]
    /\ calls' = calls + 1
    /\ UNCHANGED <<cfg, script, now, stats, dbCalls>>

\* Time passes.
CapTick ==
    /\ now < MaxTime
    /\ now' = now + 1
    /\ UNCHANGED <<cfg, script, lru, rdb, stats, q, dbCalls, calls>>

CapNext ==
    \/ \E p \in Procs : CapAdd(p) \/ CapGet(p) \/ CapDel(p)
    \/ CapTick

CapConfigs ==
    {NewDriver(NewLRU(n), 0, FALSE) : n \in (0 - 1)..MaxCap}
        \cup {NewDriver(Levels(NewLRU(0 - 1), LRU2), 0, FALSE)}

CapInit ==
    /\ cfg \in CapConfigs
    /\ script = << >>
    /\ lru = EmptyStores.lru
    /\ rdb = EmptyStores.rdb
    /\ now = 0
    /\ stats = [Gets |-> 0, Hits |-> 0, Errors |-> 0]
    /\ q = [p \in Procs |-> CapIdle]
    /\ dbCalls = 0
    /\ calls = 0

CapSpec == CapInit /\ [][CapNext]_vars

---------------------------------------------------------------------------
(* Driver.Stats called by one more goroutine while the concurrent callers  *)
(* run their queries.  Stats builds its result from three atomic loads,    *)
(* one after the other; the callers' steps can come between them.          *)

Observer == Cardinality(Callers) + 1

\* The goroutine that calls Stats: where it is and what it has loaded.
Watching(pc, gets, hits, errors, n) ==
    [pc |-> pc, Gets |-> gets, Hits |-> hits, Errors |-> errors, n |-> n]

\* Gets: atomic.LoadUint64(&d.stats.Gets)
StatsLoadGets ==
    /\ q[Observer].pc \in {"idle", "done"}
    /\ q[Observer].n < MaxStats
    /\ q' = [q EXCEPT ![Observer] = Watching("gets", stats.Gets, 0, 0, @.n + 1)]
    /\ UNCHANGED <<cfg, script, lru, rdb, now, stats, dbCalls, calls>>

\* Hits: atomic.LoadUint64(&d.stats.Hits)
StatsLoadHits ==
    /\ q[Observer].pc = "gets"
    /\ q' = [q EXCEPT ![Observer] = [@ EXCEPT !.pc = "hits", !.Hits = stats.Hits]]
    /\ UNCHANGED <<cfg, script, lru, rdb, now, stats, dbCalls, calls>>

\* Errors: atomic.LoadUint64(&d.stats.Errors), and the return of the copy.
StatsLoadErrors ==
    /\ q[Observer].pc = "hits"
    /\ q' = [q EXCEPT ![Observer] = [@ EXCEPT !.pc = "done", !.Errors = stats.Errors]]
    /\ UNCHANGED <<cfg, script, lru, rdb, now, stats, dbCalls, calls>>

StatsNext ==
    \/ ConcNext
    \/ StatsLoadGets
    \/ StatsLoadHits
    \/ StatsLoadErrors

\* The store of a driver that has run the callers' statement before.
Warm(c) ==
    CacheAdd(c.cache, Background, EmptyStores, DefaultHash(SelB, NoArgs).key,
             Entry(<< >>, DbRows(SelB)), 0, 0, FALSE).s

StatsInit ==
    /\ cfg \in ConcConfigs
    /\ script = << >>
    /\ \E s \in {EmptyStores, Warm(cfg)} : lru = s.lru /\ rdb = s.rdb
    /\ now = 0
    /\ stats = [Gets |-> 0, Hits |-> 0, Errors |-> 0]
    /\ q = [p \in Callers \cup {Observer} |->
                IF p = Observer THEN Watching("idle", 0, 0, 0, 0) ELSE Idle]
    /\ dbCalls = 0
    /\ calls = 0

StatsSpec == StatsInit /\ [][StatsNext]_vars

---------------------------------------------------------------------------
(* The LRU under concurrent use and a fair scheduler.  The calls are those *)
(* of LruSpec on one key, an Add of an entry the codec refuses among them; *)
(* every thread that can take a step eventually takes it, and a thread     *)
(* waiting for l.mu gets it once the lock is free often enough (sync's     *)
(* mutexes hand the lock to a starving waiter).                            *)

MaxLiveOps == 3

LiveEntries == {Entry(<< >>, DbRows(SelA)), Entry(<< >>, DbRows(SelX))}

\* A thread calls l.Add(ctx, k, e, ttl), l.Get(ctx, k) or l.Del(ctx, k).
LiveCall(t) ==
    /\ q[t].pc \in {"idle", "done"}
    /\ calls < MaxLiveOps
    /\ \E op \in {"add", "get", "del"}, e \in LiveEntries, ttl \in {0, 1} :
            /\ op # "add" => (ttl = 0 /\ e = Entry(<< >>, DbRows(SelA)))
            /\ q' = [q EXCEPT ![t] = [LruIdle EXCEPT !.pc = "start", !.op = op,
                        !.k = CacheKey,
                        !.e = IF op = "add" THEN e ELSE NoEntry,
                        !.ttl = ttl]]
    /\ calls' = calls + 1
    /\ UNCHANGED <<cfg, script, lru, rdb, now, stats, dbCalls>>

\* Thread t waits for l.mu and gets it: RLock in Get, Lock in Add and Del,
\* Lock in Get on an expired entry.
LiveAcquire(t) ==
    \/ LruRLock(t)
    \/ LruLock(t)
    \/ LruLockExpired(t)

\* Thread t runs: the work inside the lock with its release, and the type
\* switch of Get.
LiveRun(t) ==
    \/ LruLookup(t)
    \/ LruSwitch(t)
    \/ LruRemoveExpired(t)
    \/ LruAddLocked(t)
    \/ LruDelLocked(t)

LiveNext ==
    \/ \E t \in Threads :
            \/ LiveCall(t)
            \/ LiveAcquire(t)
            \/ LiveRun(t)
    \/ LruTick

LiveFair ==
    \A t \in Threads : WF_vars(LiveRun(t)) /\ SF_vars(LiveAcquire(t))

LiveSpec == LruInit /\ [][LiveNext]_vars /\ LiveFair

---------------------------------------------------------------------------
(* The TTL of a driver and the TTL of a call: drivers built with any       *)
(* default TTL, calls under contexts with and without a ttl of their own,  *)
(* while time passes.                                                      *)

MaxTtlCalls == 2

TtlValues == {0, 1, 0 - 1}

TtlCtxs ==
    {Background, WithKey(Background, CacheKey)}
        \cup {WithTTL(Background, t) : t \in TtlValues}
        \cup {WithTTL(WithKey(Background, CacheKey), t) : t \in TtlValues}

TtlQuery(p) ==
    /\ calls < MaxTtlCalls
    /\ \E ctx \in TtlCtxs, dt \in {0, 1} :
            Query(p, SelB, NoArgs, ctx,
                  [qerr |-> FALSE, delFail |-> FALSE, getFail |-> FALSE, dt |-> dt])
    /\ UNCHANGED script

TtlNext ==
    \E p \in Procs :
        \/ TtlQuery(p)
        \/ NextRow(p, FALSE)
        \/ Close(p, FALSE, FALSE)

TtlInit ==
    /\ cfg \in {NewDriver(LRU0, d, FALSE) : d \in TtlValues}
    /\ script = << >>
    /\ lru = EmptyStores.lru
    /\ rdb = EmptyStores.rdb
    /\ now = 0
    /\ stats = [Gets |-> 0, Hits |-> 0, Errors |-> 0]
    /\ q = [p \in Procs |-> Idle]
    /\ dbCalls = 0
    /\ calls = 0

TtlSpec == TtlInit /\ [][TtlNext]_vars

---------------------------------------------------------------------------
(* One statement run again and again by a caller that may or may not ask   *)
(* for the column names: what a miss records and what a hit replays.       *)

MaxColCalls == 3

ColsQuery(p) ==
    /\ calls < MaxColCalls
    /\ Query(p, SelA, NoArgs, Background,
             [qerr |-> FALSE, delFail |-> FALSE, getFail |-> FALSE, dt |-> 0])
    /\ UNCHANGED script

ColsNext ==
    \E p \in Procs :
        \/ ColsQuery(p)
        \/ FreeNext(p)
        \/ FreeScan(p)
        \/ Columns(p)
        \/ Close(p, FALSE, FALSE)

ColsInit ==
    /\ cfg \in {NewDriver(LRU0, 0, FALSE), NewDriver(Levels(LRU0, RedisLevel), 0, FALSE)}
    /\ script = << >>
    /\ lru = EmptyStores.lru
    /\ rdb = EmptyStores.rdb
    /\ now = 0
    /\ stats = [Gets |-> 0, Hits |-> 0, Errors |-> 0]
    /\ q = [p \in Procs |-> Idle]
    /\ dbCalls = 0
    /\ calls = 0

ColsSpec == ColsInit /\ [][ColsNext]_vars

---------------------------------------------------------------------------
(* Contexts as the caller holds them.  A context either carries a pointer  *)
(* to a ctxOptions record or none; script.heap lists the records           *)
(* allocated so far and script.held the contexts the caller holds, each    *)
(* with the index of its record (0: no record).  The first context held    *)
(* is context.Background().                                                *)

MaxCtxOps == 2

MaxCtxCalls == 2

\* The context value a held context stands for at this moment.
Deref(s, i) ==
    [cache |-> "none",
     opts |-> IF s.held[i] = 0 THEN NoOptions ELSE s.heap[s.held[i]]]

\* A variant of ctxOptionsStore: the helper always allocates a record of its
\* own and returns a new context.
ctxOptionsStoreCopy(s, i, o) ==
    [s EXCEPT !.heap = Append(@, o), !.held = Append(@, Len(s.heap) + 1)]

\* The tail of Skip, Evict, WithKey and WithTTL on the held context i, o being
\* the options the helper leaves: without a record on the context,
\* context.WithValue(ctx, ctxOptionsKey, &ctxOptions{...}) is returned;
\* with one, the record is assigned to and ctx itself is returned.
ctxOptionsStore(s, i, o) ==
    IF s.held[i] = 0
    THEN [s EXCEPT !.heap = Append(@, o), !.held = Append(@, Len(s.heap) + 1)]
    ELSE [s EXCEPT !.heap[s.held[i]] = o]

\* The helpers a caller may apply to a context.
Helpers(ctx) == {Skip(ctx), Evict(ctx), WithKey(ctx, CacheKey), WithTTL(ctx, 1)}

\* The caller applies a helper to a context it holds.
CtxHelper(p) ==
    /\ script.n < MaxCtxOps
    /\ \E i \in DOMAIN script.held :
        \E c \in Helpers(Deref(script, i)) :
            script' = [ctxOptionsStore(script, i, c.opts) EXCEPT !.n = @ + 1]
    /\ UNCHANGED <<cfg, lru, rdb, now, stats, q, dbCalls, calls>>

\* The caller runs the statement under a context it holds.
CtxQuery(p) ==
    /\ calls < MaxCtxCalls
    /\ \E i \in DOMAIN script.held :
            Query(p, SelB, NoArgs, Deref(script, i),
                  [qerr |-> FALSE, delFail |-> FALSE, getFail |-> FALSE, dt |-> 0])
    /\ UNCHANGED script

CtxNext ==
    \E p \in Procs :
        \/ CtxHelper(p)
        \/ CtxQuery(p)
        \/ Close(p, FALSE, FALSE)

CtxInit ==
    /\ cfg = NewDriver(LRU0, 0, FALSE)
    /\ script = [heap |-> << >>, held |-> <<0>>, n |-> 0]
    /\ lru = EmptyStores.lru
    /\ rdb = EmptyStores.rdb
    /\ now = 0
    /\ stats = [Gets |-> 0, Hits |-> 0, Errors |-> 0]
    /\ q = [p \in Procs |-> Idle]
    /\ dbCalls = 0
    /\ calls = 0

CtxSpec == CtxInit /\ [][CtxNext]_vars

---------------------------------------------------------------------------
(* Two callers served from the cache at the same time: the store holds the *)
(* statement's entry, each caller queries and iterates its rows in any     *)
(* order of Next, Scan, Columns and Close, interleaved with the other.     *)

MaxHitCalls == 3

\* The stores after an earlier caller recorded the statement with its
\* column names.
HitStores(c) ==
    CacheAdd(c.cache, Background, EmptyStores, DefaultHash(SelA, NoArgs).key,
             Entry(DbColumns(SelA), DbRows(SelA)), 0, 0, FALSE).s

HitQuery(p) ==
    /\ calls < MaxHitCalls
    /\ Query(p, SelA, NoArgs, Background,
             [qerr |-> FALSE, delFail |-> FALSE, getFail |-> FALSE, dt |-> 0])
    /\ UNCHANGED script

HitNext ==
    \E p \in Callers :
        \/ HitQuery(p)
        \/ FreeNext(p)
        \/ FreeScan(p)
        \/ Columns(p)
        \/ Close(p, FALSE, FALSE)

HitInit ==
    /\ cfg \in {NewDriver(LRU0, 0, FALSE), NewDriver(Levels(LRU0, RedisLevel), 0, FALSE)}
    /\ script = << >>
    /\ lru = HitStores(cfg).lru
    /\ rdb = HitStores(cfg).rdb
    /\ now = 0
    /\ stats = [Gets |-> 0, Hits |-> 0, Errors |-> 0]
    /\ q = [p \in Callers |-> Idle]
    /\ dbCalls = 0
    /\ calls = 0

HitSpec == HitInit /\ [][HitNext]_vars

---------------------------------------------------------------------------
(* The cache called directly with keys of different Go types whose textual *)
(* form is the same: the int 1 (the key of the hash function in            *)
(* TestDriver_Levels/Redis) and the string "1".                            *)

MaxKeyOps == 3

IntOne == <<"int", "1">>

StringOne == <<"string", "1">>

TypedKeys == {IntOne, StringOne}

\* The entry recorded under each key: one row, different for the two keys.
EntryOf(k) == IF k = IntOne THEN Entry(<< >>, <<DbRows(SelA)[1]>>)
              ELSE Entry(<< >>, <<DbRows(SelA)[2]>>)

\* d.Cache.Add(ctx, k, e, 0)
KeyAdd(p) ==
    /\ calls < MaxKeyOps
    /\ \E k \in TypedKeys :
            LET r == CacheAdd(cfg.cache, Background, [lru |-> lru, rdb |-> rdb],
                              k, EntryOf(k), 0, now, FALSE)
            IN /\ lru' = r.s.lru
               /\ rdb' = r.s.rdb
               /\ q' = [q EXCEPT ![p] = StoreCall("add", k, FALSE, EntryOf(k), r.err)]
    /\ calls' = calls + 1
    /\ UNCHANGED <<cfg, script, now, stats, dbCalls>>

\* d.Cache.Get(ctx, k)
KeyGet(p) ==
    /\ calls < MaxKeyOps
    /\ \E k \in TypedKeys :
            LET r == CacheGet(cfg.cache, Background, [lru |-> lru, rdb |-> rdb],
                              k, now, FALSE)
            IN /\ lru' = r.s.lru
               /\ rdb' = r.s.rdb
               /\ q' = [q EXCEPT ![p] = StoreCall("get", k, FALSE, r.e, r.err)]
    /\ calls' = calls + 1
    /\ UNCHANGED <<cfg, script, now, stats, dbCalls>>

\* d.Cache.Del(ctx, k)
KeyDel(p) ==
    /\ calls < MaxKeyOps
    /\ \E k \in TypedKeys :
            LET r == CacheDel(cfg.cache, Background, [lru |-> lru, rdb |-> rdb], k, FALSE)
            IN /\ lru' = r.s.lru
               /\ rdb' = r.s.rdb
               /\ q' = [q EXCEPT ![p] = StoreCall("del", k, FALSE, NoEntry, r.err)]
    /\ calls' = calls + 1
    /\ UNCHANGED <<cfg, script, now, stats, dbCalls>>

KeyNext == \E p \in Procs : KeyAdd(p) \/ KeyGet(p) \/ KeyDel(p)

KeyInit ==
    /\ cfg \in {NewDriver(Levels(LRU0, RedisLevel), 0, FALSE),
                NewDriver(Levels(RedisLevel, LRU2), 0, FALSE),
                NewDriver(Levels(LRU0, LRU2), 0, FALSE)}
    /\ script = << >>
    /\ lru = EmptyStores.lru
    /\ rdb = [k \in {Sprint(t) : t \in TypedKeys} |-> NoBytes]
    /\ now = 0
    /\ stats = [Gets |-> 0, Hits |-> 0, Errors |-> 0]
    /\ q = [p \in Procs |-> Idle]
    /\ dbCalls = 0
    /\ calls = 0

KeySpec == KeyInit /\ [][KeyNext]_vars

---------------------------------------------------------------------------
(* An eviction while a miss is in flight.  The first caller runs the       *)
(* statement once over an empty store; the second caller runs it under     *)
(* Evict(ctx), any number of times, each time after the first caller's     *)
(* Query has returned its recording row handle and before that handle is   *)
(* closed.                                                                 *)

MaxEvictCalls == 3

\* The caller whose miss is in flight, and the caller that evicts.
Recorder == CHOOSE p \in Callers : \A u \in Callers : p <= u

Evictor == CHOOSE p \in Callers : p # Recorder

\* The first caller's query: a miss.
EvictMiss ==
    /\ q[Recorder].pc = "idle"
    /\ Query(Recorder, SelA, NoArgs, Background,
             [qerr |-> FALSE, delFail |-> FALSE, getFail |-> FALSE, dt |-> 0])
    /\ UNCHANGED script

\* The second caller's query under Evict(ctx), the miss being in flight.
EvictQuery ==
    /\ q[Recorder].pc = "rows"
    /\ q[Recorder].kind = "recorder"
    /\ calls < MaxEvictCalls
    /\ Query(Evictor, SelA, NoArgs, Evict(Background),
             [qerr |-> FALSE, delFail |-> FALSE, getFail |-> FALSE, dt |-> 0])
    /\ UNCHANGED script

EvictNext ==
    \/ EvictMiss
    \/ EvictQuery
    \/ \E p \in Callers :
            \/ FreeNext(p)
            \/ FreeScan(p)
            \/ Close(p, FALSE, FALSE)

EvictInit ==
    /\ cfg \in {NewDriver(LRU0, 0, FALSE), NewDriver(Levels(LRU0, RedisLevel), 0, FALSE)}
    /\ script = << >>
    /\ lru = EmptyStores.lru
    /\ rdb = EmptyStores.rdb
    /\ now = 0
    /\ stats = [Gets |-> 0, Hits |-> 0, Errors |-> 0]
    /\ q = [p \in Callers |-> Idle]
    /\ dbCalls = 0
    /\ calls = 0

EvictSpec == EvictInit /\ [][EvictNext]_vars

---------------------------------------------------------------------------
(* Properties of a free caller (Spec).                                     *)

\* C2: for every missed query, a Close while unread rows remain in the
\* stream (the last Next returned true, or Next was never called) performs
\* no Add, also when the stream reports no error.
C2_NoAddWithUnreadRows ==
    \A p \in Procs :
        (/\ q[p].pc = "closed"
         /\ q[p].kind = "recorder"
         /\ q[p].lastNext \in {"true", "none"}
         /\ q[p].src # << >>)
        => ~q[p].added

\* C3: when the iteration of a missed query ended because the stream
\* failed (Next returned false, Err() is non-nil at Close), Close installs
\* no entry.
C3_NoAddAfterStreamError ==
    \A p \in Procs :
        (/\ q[p].pc = "closed"
         /\ q[p].kind = "recorder"
         /\ q[p].lastNext = "false"
         /\ q[p].serr)
        => ~q[p].added

\* C4: a SELECT in which the store's Get, Del or Add returned an error ran
\* the wrapped driver, Query returned what the wrapped driver's Query
\* returned, and Close returned what the wrapped stream's Close returned.
C4_CacheErrorsNeverFailQuery ==
    \A p \in Procs :
        (q[p].cacheErr \/ q[p].addErr) =>
            /\ q[p].exec
            /\ q[p].qret = q[p].uq
            /\ q[p].pc = "closed" => q[p].cret = q[p].uc

\* C4 happens: the store's Get returned an error (bytes that are no entry),
\* the wrapped driver's rows were handed out and their Close failed.
C4_Witness ==
    \E p \in Procs :
        /\ q[p].pc = "closed"
        /\ q[p].cacheErr
        /\ q[p].got
        /\ q[p].cret = "closeerr"

\* The statements of the model that do not begin with SELECT or select.
NonSelects == {Insert, Mixed, Spaced}

\* C8: a statement that does not begin with exactly SELECT or select is
\* forwarded to the wrapped driver: d.Hash is not called, the store sees no
\* Get, Add or Del (also under Evict), and no step of the call changes the
\* stores or the counters.
C8_NonSelectForwarded ==
    /\ [](\A p \in Procs :
            (q[p].pc # "idle" /\ q[p].query \in NonSelects) =>
                /\ q[p].exec
                /\ q[p].kind \in {"raw", "none"}
                /\ q[p].qret = q[p].uq
                /\ ~q[p].hashed
                /\ ~q[p].got
                /\ ~q[p].deleted
                /\ ~q[p].added)
    /\ [][\A p \in Procs :
            (q'[p] # q[p] /\ q'[p].query \in NonSelects) =>
                UNCHANGED <<lru, rdb, stats>>]_vars

\* C8 happens: an INSERT under Evict was forwarded and closed over a store
\* that holds entries.
C8_Witness ==
    \E p \in Procs :
        /\ q[p].pc = "closed"
        /\ q[p].query = Insert
        /\ q[p].ctx.opts.evict
        /\ q[p].exec
        /\ lru["L1"] # << >>

\* C17: on a hit as on a miss every Next that returns true advances to the
\* next row, so Next returns true at most as often as the result has rows
\* (on a hit: the rows still held and the rows scanned).
C17_NextAdvancesOnBothPaths ==
    \A p \in Procs :
        /\ q[p].kind = "recorder" => q[p].trues <= Len(DbRows(q[p].query))
        /\ q[p].kind = "repeater" => q[p].trues <= Len(q[p].values) + Len(q[p].out)

---------------------------------------------------------------------------
(* Properties of the tests (TestSpec).                                     *)

\* No call of the test is in progress.
Quiet == \A p \in Procs : q[p].pc \in {"idle", "closed"}

\* Every call of the test is one of the given steps.
Over(steps) == \A i \in DOMAIN script : script[i] \in steps

\* The key the driver derives for SelA.
KeyA == DefaultHash(SelA, NoArgs).key

\* No level of the store holds key k / some level holds it.
KeyAbsent(k) ==
    /\ \A id \in LRUIds : ~Has(lru[id], k)
    /\ rdb[Sprint(k)] = NoBytes

KeyPresent(k) ==
    \/ \E id \in LRUIds : Has(lru[id], k)
    \/ rdb[Sprint(k)] # NoBytes

\* The test repeats one SELECT without options against a driver with a
\* store of its own and TTL 0.
Repeated ==
    /\ cfg.ttl = 0
    /\ cfg.cache.kind # "ctx"
    /\ Over({Plain}) \/ Over({PlainB})

\* C1: a working store, TTL 0, the same SELECT run N >= 1 times, each run
\* iterated to the end and closed: the wrapped driver runs once (for the
\* first run only), every run yields the rows of the database in order, and
\* after N runs the counters are gets = N, hits = N - 1, errors = 0.
C1_RepeatedSelectRunsOnce ==
    (Repeated /\ calls >= 1) =>
        /\ dbCalls = 1
        /\ \A p \in Procs :
            /\ q[p].exec <=> calls = 1
            /\ q[p].pc = "closed" => q[p].out = DbRows(script[calls].query)
        /\ Quiet => stats = [Gets |-> calls, Hits |-> calls - 1, Errors |-> 0]

\* C1 happens: three runs over the two-level store with Redis.
C1_Witness ==
    /\ Repeated
    /\ HasRedis
    /\ Quiet
    /\ calls = 3
    /\ script[1] = Plain
    /\ dbCalls = 1
    /\ stats.Hits = 2

\* C5: every step of a SELECT run with Skip(ctx) leaves the stores and the
\* three counters as they were, and the call runs the wrapped driver; an
\* entry that existed is kept: in a test of plain and skipped runs of one
\* SELECT, a plain run is a hit exactly when a plain run came before it.
C5_SkipLeavesCacheAlone ==
    /\ [][\A p \in Procs :
            (q'[p] # q[p] /\ calls' >= 1 /\ script[calls'] = SkipA) =>
                /\ UNCHANGED <<lru, rdb, stats>>
                /\ q'[p].exec
                /\ q'[p].kind = "raw"
                /\ ~q'[p].added
                /\ dbCalls' = dbCalls + (calls' - calls)]_vars
    /\ []((cfg.ttl = 0 /\ Over({Plain, SkipA})) =>
            \A p \in Procs :
                (q[p].pc # "idle" /\ script[calls] = Plain) =>
                    (q[p].kind = "repeater" <=> \E j \in 1..(calls - 1) : script[j] = Plain))

\* C5 happens: a plain run, a skipped run, and a plain run served as a hit.
C5_Witness ==
    /\ script = <<Plain, SkipA, Plain>>
    /\ calls = 3
    /\ Quiet
    /\ dbCalls = 2
    /\ stats = [Gets |-> 2, Hits |-> 1, Errors |-> 0]

StepTTL(st) == IF st.ctx.opts.ttl # 0 THEN st.ctx.opts.ttl ELSE cfg.ttl

\* C7: an LRU-backed store and a TTL of -1, from the driver or from
\* WithTTL: every entry is stored expired, no call is served from the
\* cache, every SELECT runs the wrapped driver and hits stays 0.
C7_MinusOneNeverHits ==
    (~HasRedis /\ \A i \in DOMAIN script : StepTTL(script[i]) = 0 - 1) =>
        /\ stats.Hits = 0
        /\ stats.Gets = calls
        /\ dbCalls = calls
        /\ \A p \in Procs : q[p].pc # "idle" => (q[p].exec /\ q[p].kind = "recorder")
        /\ \A id \in LRUIds : \A i \in DOMAIN lru[id] :
                /\ lru[id][i].val.typ = "entry"
                /\ ~Before(now, lru[id][i].val.expiry)

\* C7 happens: three runs under WithTTL(ctx, -1) left an entry in the LRU
\* and every one ran the wrapped driver.
C7_Witness ==
    /\ Over({TtlA})
    /\ calls = 3
    /\ Quiet
    /\ dbCalls = 3
    /\ lru["L1"] # << >>
    /\ stats.Hits = 0

\* C9: in request-scope mode a run is a hit exactly when an earlier run of
\* the test used the same context's store: an entry recorded under c1 never
\* serves c2; the wrapped driver runs once per context, every other run is
\* a hit.
C9_RequestScopeIsolation ==
    (cfg.cache.kind = "ctx" /\ cfg.ttl = 0 /\ Over({C1A, C2A})) =>
        /\ \A p \in Procs :
            q[p].pc # "idle" =>
                (q[p].kind = "repeater" <=>
                    \E j \in 1..(calls - 1) : script[j].ctx.cache = script[calls].ctx.cache)
        /\ dbCalls = Cardinality({script[i].ctx.cache : i \in 1..calls})
        /\ stats.Hits = calls - dbCalls
        /\ Quiet => \A id \in {script[i].ctx.cache : i \in 1..calls} : Has(lru[id], KeyA)

\* C9 happens: two contexts ran the same SELECT twice each, interleaved.
C9_Witness ==
    /\ script = <<C1A, C2A, C1A, C2A>>
    /\ calls = 4
    /\ Quiet
    /\ dbCalls = 2
    /\ stats = [Gets |-> 4, Hits |-> 2, Errors |-> 0]

\* The keyed run at position i finds CacheKey in the store.
KeyedLive(i) ==
    \E j \in 1..(i - 1) :
        /\ script[j] = KeyedA
        /\ \A k \in (j + 1)..(i - 1) : script[k] # DelKey

\* The run at position i of a test of keyed runs, plain runs and deletions
\* of CacheKey is a hit.
KeyedHit(i) ==
    \/ script[i] = KeyedA /\ KeyedLive(i)
    \/ script[i] = Plain /\ \E j \in 1..(i - 1) : script[j] = Plain

\* C10: under WithKey(ctx, k) lookup and store use k and d.Hash is not
\* called; a keyed run is a hit exactly when an earlier keyed run installed
\* k and k was not deleted since; a run without the key uses the derived
\* key; the wrapped driver runs for every miss.
C10_WithKeyUsesGivenKey ==
    (cfg = NewDriver(LRU0, 0, FALSE) /\ Over({KeyedA, Plain, DelKey})) =>
        /\ \A p \in Procs :
            /\ (q[p].pc # "idle" /\ script[calls] = KeyedA) =>
                    /\ ~q[p].hashed
                    /\ q[p].key = CacheKey
                    /\ q[p].pc = "closed" => Has(lru["L1"], CacheKey)
            /\ (q[p].pc # "idle" /\ script[calls] = Plain) =>
                    /\ q[p].hashed
                    /\ q[p].key = KeyA
            /\ q[p].pc # "idle" => (q[p].kind = "repeater" <=> KeyedHit(calls))
        /\ stats.Gets = Cardinality({i \in 1..calls : script[i].op = "query"})
        /\ stats.Hits = Cardinality({i \in 1..calls : KeyedHit(i)})
        /\ dbCalls = stats.Gets - stats.Hits

\* C10 happens: keyed miss, keyed hit, plain miss, deletion of k, keyed miss.
C10_Witness ==
    /\ script = <<KeyedA, KeyedA, Plain, DelKey, KeyedA>>
    /\ calls = 5
    /\ Quiet
    /\ dbCalls = 3
    /\ stats = [Gets |-> 4, Hits |-> 1, Errors |-> 0]
    /\ Has(lru["L1"], CacheKey)

---------------------------------------------------------------------------
(* Properties of a free caller over failing Adds and hashes (FaultSpec).   *)

\* C12: an Add that fails when the recorded entry is flushed at Close
\* increments errors by one and Close returns success, with or without a
\* Log: after a first call whose Add failed, errors is 1.
C12_FailedAddIsCounted ==
    \A p \in Procs :
        (q[p].pc = "closed" /\ q[p].addErr /\ calls = 1) =>
            /\ stats.Errors = 1
            /\ q[p].cret = "nil"

\* C19: with no key on the context and a hash function that fails, a
\* SELECT calls none of Get, Add and Del (also under Evict), runs the
\* wrapped driver and returns its result, and no step of the call changes
\* the stores or the counters.
C19_HashErrorBypasses ==
    /\ [](\A p \in Procs :
            (/\ cfg.hash = "FailingHash"
             /\ q[p].query \in {SelA, SelB}
             /\ q[p].ctx.opts.key = NoKey) =>
                /\ q[p].hashed
                /\ ~q[p].got
                /\ ~q[p].deleted
                /\ ~q[p].added
                /\ q[p].exec
                /\ q[p].kind \in {"raw", "none"}
                /\ q[p].qret = q[p].uq)
    /\ [][\A p \in Procs :
            (/\ q'[p] # q[p]
             /\ cfg.hash = "FailingHash"
             /\ q'[p].query \in {SelA, SelB}
             /\ q'[p].ctx.opts.key = NoKey) =>
                UNCHANGED <<lru, rdb, stats>>]_vars

\* C19 happens: a SELECT under Evict was forwarded and closed over a filled
\* store by a driver whose hash function fails.
C19_Witness ==
    \E p \in Procs :
        /\ cfg.hash = "FailingHash"
        /\ q[p].pc = "closed"
        /\ q[p].query = SelA
        /\ q[p].ctx.opts.evict
        /\ q[p].ctx.opts.key = NoKey
        /\ q[p].exec
        /\ lru["L1"] # << >>

---------------------------------------------------------------------------
(* Further properties of the tests (TestSpec).                             *)

\* The entry a fully iterated run of SelA records (expectQuery does not
\* call Columns).
EntryA == Entry(<< >>, DbRows(SelA))

\* Level tier holds the entry e under key k.
TierHolds(tier, k, e) ==
    IF tier.kind = "lru"
    THEN Has(lru[tier.id], k) /\ ItemOf(lru[tier.id], k).val.e = e
    ELSE UnmarshalBinary(rdb[Sprint(k)]) = [e |-> e, err |-> "nil"]

\* C13: a multi-level store whose levels all succeed: once a missed run was
\* iterated to the end and closed, every level holds the entry under the
\* key (an LRU of negative capacity holds nothing), and every later
\* identical run is served that entry without running the wrapped driver.
C13_MultiLevelWriteThrough ==
    (cfg.cache.kind = "multi" /\ cfg.ttl = 0 /\ Over({Plain})) =>
        \A p \in Procs :
            /\ (q[p].pc = "closed" \/ calls >= 2) =>
                    \A i \in DOMAIN cfg.cache.levels :
                        \/ TierHolds(cfg.cache.levels[i], KeyA, EntryA)
                        \/ /\ cfg.cache.levels[i].kind = "lru"
                           /\ cfg.cache.levels[i].max < 0
                           /\ lru[cfg.cache.levels[i].id] = << >>
            /\ calls >= 2 =>
                    /\ q[p].kind = "repeater"
                    /\ ~q[p].exec
                    /\ q[p].out \o q[p].values = EntryA.Values
                    /\ dbCalls = 1

\* C13 happens: a second run was served from an LRU over Redis, both
\* holding the entry.
C13_Witness ==
    /\ cfg.cache = Levels(LRU0, RedisLevel)
    /\ Over({Plain})
    /\ calls = 2
    /\ Quiet
    /\ dbCalls = 1
    /\ Has(lru["L1"], KeyA)
    /\ rdb[Sprint(KeyA)] # NoBytes

---------------------------------------------------------------------------
(* Claims about the cache called directly.                                 *)

\* What one level answers for key k in the current state: "hit", "miss"
\* (not found) or "error". A failing GET command reads as not found; bytes
\* that do not decode are an error.
Answer(level, k, fail) ==
    IF level.kind = "lru"
    THEN IF ~Has(lru[level.id], k) THEN "miss"
         ELSE IF ItemOf(lru[level.id], k).val.typ = "Entry" THEN "hit"
         ELSE IF Before(now, ItemOf(lru[level.id], k).val.expiry) THEN "hit" ELSE "miss"
    ELSE IF fail \/ rdb[Sprint(k)] = NoBytes THEN "miss"
         ELSE IF UnmarshalBinary(rdb[Sprint(k)]).err # "nil" THEN "error" ELSE "hit"

\* The entry a level holds for key k.
Held(level, k) ==
    IF level.kind = "lru" THEN ItemOf(lru[level.id], k).val.e
    ELSE UnmarshalBinary(rdb[Sprint(k)]).e

\* The levels that do not answer not-found.
Answering(k, fail) ==
    {i \in 1..Len(cfg.cache.levels) : Answer(cfg.cache.levels[i], k, fail) # "miss"}

First(S) == CHOOSE i \in S : \A j \in S : i <= j

\* Level j is left alone by the step.
Untouched(j) ==
    LET level == cfg.cache.levels[j]
    IN IF level.kind = "lru" THEN lru'[level.id] = lru[level.id] ELSE rdb' = rdb

\* C14: multiLevel.Get asks the levels in list order: the hit of the lowest
\* index is returned and no later level is consulted, a level that answers
\* not-found is passed over, any other error ends the lookup and is returned
\* even if a later level holds the entry, and not-found is returned when all
\* levels answer not-found.
C14_MultiLevelGetOrder ==
    [][\A p \in Procs :
        (calls' = calls + 1 /\ q'[p].pc = "get") =>
            LET k == q'[p].key
                S == Answering(k, q'[p].fail)
            IN IF S = {} THEN q'[p].err = ErrNotFound
               ELSE /\ \A j \in (First(S) + 1)..Len(cfg.cache.levels) : Untouched(j)
                    /\ IF Answer(cfg.cache.levels[First(S)], k, q'[p].fail) = "hit"
                       THEN /\ q'[p].err = "nil"
                            /\ q'[p].e = Held(cfg.cache.levels[First(S)], k)
                       ELSE q'[p].err \notin {"nil", ErrNotFound}]_vars

\* A Get that returned the error of the first level while the second level
\* held the entry at the front of two.
C14_Witness ==
    /\ cfg.cache = Levels(RedisLevel, LRU2)
    /\ q[1].pc = "get"
    /\ q[1].err \notin {"nil", ErrNotFound}
    /\ Has(lru[LRU2.id], q[1].key)

\* A Get served by the first level while the second level held two entries
\* with another one in front.
C14_HitWitness ==
    /\ cfg.cache = Levels(LRU0, LRU2)
    /\ q[1].pc = "get"
    /\ q[1].err = "nil"
    /\ Len(lru[LRU2.id]) = 2
    /\ lru[LRU2.id][1].k # q[1].key

---------------------------------------------------------------------------
(* Claims about concurrent callers.                                        *)

\* C11: in every reachable state, under every interleaving of concurrent
\* Query and Close calls, hits is at most gets, and no step makes gets, hits
\* or errors smaller.
C11_CountersMonotone ==
    /\ [](stats.Hits <= stats.Gets)
    /\ [][/\ stats'.Gets >= stats.Gets
          /\ stats'.Hits >= stats.Hits
          /\ stats'.Errors >= stats.Errors]_vars

\* Both callers found the entry and neither hit is counted yet, after a
\* failed Add was counted.
C11_Witness ==
    /\ q[1].pc = "hits"
    /\ q[2].pc = "hits"
    /\ stats.Gets = 3
    /\ stats.Hits = 0
    /\ stats.Errors = 1

\* Caller p holds a recorder for key k.
Recording(p, k) == q[p].pc = "rows" /\ q[p].kind = "recorder" /\ q[p].key = k

\* The first LRU holds entry e under key k.
FirstHolds(items, k, e) == Has(items, k) /\ ItemOf(items, k).val.e = e

---------------------------------------------------------------------------
(* Claims about the LRU under concurrent use.                              *)

\* C16: the LRU's Add, Get and Del are safe under concurrent use: no thread
\* changes the cache's structure (key map and recency list) while another
\* thread is inside the lock reading or changing it, the lookup of Get, which
\* moves the found element to the front, counting as an access.
C16_ExclusiveModification ==
    \A t, u \in Threads :
        (t # u /\ Inside(t) /\ Inside(u)) => ~(Modifies(t) \/ Modifies(u))

---------------------------------------------------------------------------
(* Claims about the types of Query's arguments.                            *)

\* The call of caller p passed a v that is no *sql.Rows or args that are no
\* []any.
WrongTypes(p) ==
    /\ q[p].pc \in {"failed", "returned"}
    /\ "vOk" \in DOMAIN q[p]
    /\ ~(q[p].vOk /\ q[p].argsOk)

\* C21: every call of Query whose v is not the row container, or whose args
\* are not a sequence of values, returns a type error without running the
\* wrapped driver and without changing the store or the counters, whatever
\* the statement.
C21_TypeErrorForEveryStatement ==
    \A p \in Procs :
        WrongTypes(p) =>
            /\ q[p].qret = TypeError
            /\ ~q[p].exec
            /\ dbCalls = 0
            /\ stats = [Gets |-> 0, Hits |-> 0, Errors |-> 0]
            /\ \E s \in {EmptyStores, Filled(cfg)} : lru = s.lru /\ rdb = s.rdb

\* The same for statements that start with SELECT or select only.
C21_TypeErrorForSelect ==
    \A p \in Procs :
        (WrongTypes(p) /\ (HasPrefix(q[p].query, SELECT) \/ HasPrefix(q[p].query, select))) =>
            /\ q[p].qret = TypeError
            /\ ~q[p].exec
            /\ dbCalls = 0
            /\ stats = [Gets |-> 0, Hits |-> 0, Errors |-> 0]
            /\ \E s \in {EmptyStores, Filled(cfg)} : lru = s.lru /\ rdb = s.rdb

---------------------------------------------------------------------------
(* Claims about one LRU called directly.                                   *)

\* The step is a call of op by caller p.
CapStep(p, op) == calls' = calls + 1 /\ q'[p].pc = op

\* The driver's cache is one LRU.
OneLRU == cfg.cache.kind = "lru"

\* The keys an LRU holds.
Stored(items) == {items[i].k : i \in DOMAIN items}

\* C22: LRU.Get(k) returns not-found when k is absent; it returns the entry
\* when the entry was added with ttl = 0, whatever the time; for an entry
\* added with ttl # 0 at instant t it returns the entry only while
\* now < t + ttl, and otherwise removes k and returns not-found.  So no Get
\* returns an entry whose expiry has passed.
C22_GetHonoursExpiry ==
    [][\A p \in Procs : OneLRU =>
        /\ CapStep(p, "add") =>
                LET k == q'[p].key
                    items == lru'["L1"]
                IN Has(items, k) =>
                    IF q'[p].ttl = 0
                    THEN "expiry" \notin DOMAIN ItemOf(items, k).val
                    ELSE ItemOf(items, k).val.expiry = now + q'[p].ttl
        /\ CapStep(p, "get") =>
                LET k == q'[p].key
                    items == lru["L1"]
                IN IF ~Has(items, k) THEN q'[p].err = ErrNotFound
                   ELSE IF "expiry" \notin DOMAIN ItemOf(items, k).val
                           \/ now < ItemOf(items, k).val.expiry
                   THEN q'[p].err = "nil" /\ q'[p].e = ItemOf(items, k).val.e
                   ELSE q'[p].err = ErrNotFound /\ ~Has(lru'["L1"], k)]_vars

\* An unbounded LRU is empty after an Add and a Get at a later instant: the
\* Get found the entry expired and removed it.
C22_Witness ==
    /\ cfg.cache = NewLRU(0)
    /\ calls = 2
    /\ now = 1
    /\ q[1].pc = "get"
    /\ q[1].err = ErrNotFound
    /\ lru["L1"] = << >>

\* The key of S that comes last in the order of touches.
Oldest(touched, S) ==
    touched[CHOOSE i \in DOMAIN touched :
                /\ touched[i] \in S
                /\ \A j \in DOMAIN touched : touched[j] \in S => j <= i]

\* C23: an LRU built with capacity n > 0 never holds more than n keys, and an
\* Add of a new key to a full LRU removes exactly the key least recently
\* touched by Add or Get; no other Add removes a key, so an LRU built with
\* capacity 0 never loses a key to capacity; Get and Del remove no key but
\* their own.
C23_CapacityEvictsOldest ==
    /\ []((OneLRU /\ cfg.cache.max > 0) => Len(lru["L1"]) <= cfg.cache.max)
    /\ [][\A p \in Procs : (OneLRU /\ cfg.cache.max >= 0) =>
            LET k == q'[p].key
                before == Stored(lru["L1"])
                after == Stored(lru'["L1"])
            IN /\ CapStep(p, "add") =>
                    IF cfg.cache.max > 0 /\ k \notin before
                            /\ Cardinality(before) = cfg.cache.max
                    THEN after = (before \ {Oldest(q[p].touched, before)}) \cup {k}
                    ELSE after = before \cup {k}
               /\ CapStep(p, "get") => (after \subseteq before /\ before \ after \subseteq {k})
               /\ CapStep(p, "del") => after = before \ {k}]_vars

\* An LRU of capacity 2 after four calls that touched three keys: it holds
\* the two touched last, and the one touched before them is gone.
C23_Witness ==
    /\ cfg.cache = NewLRU(2)
    /\ calls = 4
    /\ q[1].pc = "add"
    /\ Len(q[1].touched) = 3
    /\ Stored(lru["L1"]) = {q[1].touched[1], q[1].touched[2]}

\* The first (or only) level of the driver's cache is an LRU built with a
\* negative capacity.
FirstIsNop ==
    \/ OneLRU /\ cfg.cache.max < 0
    \/ cfg.cache.kind = "multi" /\ cfg.cache.levels[1].kind = "lru"
            /\ cfg.cache.levels[1].max < 0

\* The second LRU holds key k and the entry has not expired.
SecondServes(k) ==
    /\ Has(lru["L2"], k)
    /\ ("expiry" \in DOMAIN ItemOf(lru["L2"], k).val => now < ItemOf(lru["L2"], k).val.expiry)

---------------------------------------------------------------------------
(* Claims about Driver.Stats.                                              *)

\* C25: every value Stats returns satisfies Hits <= Gets, also when Stats
\* runs while Query calls are adding to the counters.
C25_SnapshotHitsAtMostGets ==
    q[Observer].pc = "done" => q[Observer].Hits <= q[Observer].Gets

---------------------------------------------------------------------------
(* Claims about errors of the store's Get (Spec).                          *)

\* The store's Get of caller p's call returned an error that is not
\* ErrNotFound.
GetFailed(r) == r.got /\ r.cacheErr

\* C26: when the store's Get returns an error other than not-found the call
\* is a bypass: the wrapped driver runs and its row stream is handed back
\* without a recorder, so the call performs no Add, at Close or before, and
\* adds nothing to hits.
C26_GetErrorIsBypass ==
    /\ [](\A p \in Procs : GetFailed(q[p]) =>
                /\ q[p].exec
                /\ q[p].kind \in {"raw", "none"}
                /\ q[p].qret = q[p].uq
                /\ ~q[p].added)
    /\ [][\A p \in Procs : (q'[p] # q[p] /\ GetFailed(q'[p])) =>
                /\ stats'.Hits = stats.Hits
                /\ stats'.Errors = stats.Errors
                /\ lru' = lru
                /\ rdb' = rdb]_vars

\* The store's Get failed, the caller read the wrapped driver's rows to the
\* end and closed them.
C26_Witness ==
    \E p \in Procs :
        /\ q[p].pc = "closed"
        /\ GetFailed(q[p])
        /\ q[p].lastNext = "false"
        /\ q[p].out = DbRows(q[p].query)
        /\ q[p].cret = "nil"
        /\ stats.Gets = 1

\* The bytes the Redis service holds under key k are not an entry.
Corrupt(k) ==
    /\ HasRedis
    /\ rdb[Sprint(k)] # NoBytes
    /\ UnmarshalBinary(rdb[Sprint(k)]).err # "nil"

\* C27: when the bytes stored under a key in the remote level cannot be
\* decoded the lookup counts as not-found: the Query is a miss, its rows are
\* recorded, and Close writes a fresh entry for the key.
C27_CorruptValueIsMiss ==
    \A p \in Procs :
        (q[p].pc = "rows" /\ q[p].got /\ ~Has(lru["L1"], q[p].key) /\ Corrupt(q[p].key))
            => q[p].kind = "recorder"

---------------------------------------------------------------------------
(* Claims about the Redis level and about the writes of several levels.    *)

\* The first level of the cache is the Redis level.
RedisFirst == cfg.cache.kind = "multi" /\ cfg.cache.levels[1].kind = "redis"

\* C28: the Redis level returns the errors of the remote service: a Get, an
\* Add or a Del whose command fails at the service (for another reason than
\* a missing key) returns an error, and for Get one that is not not-found.
C28_RemoteErrorsPropagate ==
    \A p \in Procs :
        (RedisFirst /\ q[p].pc \in {"get", "add", "del"} /\ q[p].fail)
            => q[p].err \notin {"nil", ErrNotFound}

\* The same for Add and Del alone.
C28_WriteErrorsPropagate ==
    \A p \in Procs :
        (RedisFirst /\ q[p].pc \in {"add", "del"} /\ q[p].fail)
            => q[p].err \notin {"nil", ErrNotFound}

\* Level i fails in a call whose Redis command fails: the Redis level does,
\* an LRU never (the entries of these calls are ones the codec encodes).
Failing(i, fail) == cfg.cache.levels[i].kind = "redis" /\ fail

\* The levels of the cache, and those that fail.
LevelIds == DOMAIN cfg.cache.levels

FailingIds(fail) == {i \in LevelIds : Failing(i, fail)}

\* After the step level i holds entry e under key k.
Written(i, k, e) ==
    IF cfg.cache.levels[i].kind = "lru"
    THEN FirstHolds(lru'[cfg.cache.levels[i].id], k, e)
    ELSE rdb'[Sprint(k)] = MarshalBinary(e).buf

\* After the step level i holds nothing under key k.
Deleted(i, k) ==
    IF cfg.cache.levels[i].kind = "lru"
    THEN ~Has(lru'[cfg.cache.levels[i].id], k)
    ELSE rdb'[Sprint(k)] = NoBytes

\* C29: multiLevel.Add and multiLevel.Del go through the levels in list
\* order and stop at the first level that returns an error, which they
\* return: the levels before it are written (deleted from), the failing
\* level and the levels after it are as they were; when no level fails every
\* level is written (deleted from) and the call returns success.
C29_WritesStopAtFirstError ==
    [][\A p \in Procs :
        (calls' = calls + 1 /\ q'[p].pc \in {"add", "del"}) =>
            LET k == q'[p].key
                F == FailingIds(q'[p].fail)
                done == IF F = {} THEN LevelIds ELSE {i \in LevelIds : i < First(F)}
            IN /\ (q'[p].err = "nil") <=> (F = {})
               /\ \A i \in done :
                    IF q'[p].pc = "add" THEN Written(i, k, q'[p].e) ELSE Deleted(i, k)
               /\ \A i \in LevelIds \ done : Untouched(i)]_vars

\* A Del that failed in the first level, Redis, and left the key in the
\* second level.
C29_Witness ==
    /\ RedisFirst
    /\ q[1].pc = "del"
    /\ q[1].err # "nil"
    /\ Has(lru["L2"], q[1].key)

\* C30: a lookup in several levels never writes: when multiLevel.Get hits in
\* level j no level before j receives the entry, so those levels still miss
\* the key afterwards, and level j, which still holds the entry, serves the
\* next lookup of the key as well.
C30_NoBackfill ==
    [][\A p \in Procs :
        (calls' = calls + 1 /\ q'[p].pc = "get" /\ q'[p].err = "nil") =>
            LET k == q'[p].key
                j == First(Answering(k, q'[p].fail))
            IN /\ \A i \in LevelIds : i < j =>
                    /\ Untouched(i)
                    /\ cfg.cache.levels[i].kind = "lru" => Deleted(i, k)
               /\ Written(j, k, q'[p].e)]_vars

\* A Get served by the second level, Redis, while the first level, an LRU,
\* does not hold the key, before the call and after it.
C30_Witness ==
    /\ cfg.cache = Levels(LRU0, RedisLevel)
    /\ q[1].pc = "get"
    /\ q[1].err = "nil"
    /\ ~Has(lru["L1"], q[1].key)
    /\ rdb[Sprint(q[1].key)] = MarshalBinary(q[1].e).buf

---------------------------------------------------------------------------
(* Claims about the LRU under a fair scheduler.                            *)

\* C31: no interleaving of concurrent Add, Get and Del calls of the LRU
\* deadlocks: under fair scheduling every call that was started eventually
\* returns, the Get that finds an expired entry and takes the exclusive lock
\* after its shared-lock lookup and the Add whose encoding fails included.
C31_EveryCallReturns ==
    \A t \in Threads : (q[t].pc = "start") ~> (q[t].pc = "done")

\* A Get has returned through the removal of an expired entry while the other
\* thread's Add has returned the codec's error.
C31_Witness ==
    \E t, u \in Threads :
        /\ t # u
        /\ q[t].pc = "done" /\ q[t].op = "get" /\ q[t].ok
        /\ q[t].val.typ = "entry" /\ q[t].ret = ErrNotFound
        /\ q[u].pc = "done" /\ q[u].op = "add" /\ q[u].ret = "error"

\* C39: the removal that LRU.Get performs on an expired entry removes only
\* the expired entry its lookup observed: if another thread's Add stores a
\* fresh entry under the same key between the lookup (shared lock) and the
\* removal (exclusive lock), that fresh entry is still present after Get
\* returns.
C39_RemovesOnlyObserved ==
    \A t \in Threads :
        (q[t].pc = "done" /\ q[t].op = "get" /\ q[t].gone.typ # "none") =>
            q[t].gone = q[t].val

\* The same for the entries without expiry: Get never removes one.
C39_NeverRemovesPermanent ==
    \A t \in Threads :
        (q[t].pc = "done" /\ q[t].op = "get") => q[t].gone.typ # "Entry"

---------------------------------------------------------------------------
(* Claims about the row handle of a miss, checked on the free caller.      *)

\* The entries a store state holds: the items of the LRUs and the bytes of
\* the Redis service.
Items(l) ==
    UNION {{<<id, l[id][i]>> : i \in DOMAIN l[id]} : id \in LRUIds}

NothingAdded ==
    /\ Items(lru') \subseteq Items(lru)
    /\ \A k \in TextKeys : rdb'[k] \in {rdb[k], NoBytes}

\* C32: within one query the store's Add is invoked only from Close of the
\* row handle, and only after the wrapped stream's Close has returned without
\* error: Query, Next, Scan and Columns add nothing to the stores, and when
\* the wrapped stream's Close returns an error, Close returns that error and
\* no Add is performed.
C32_AddOnlyAtClose ==
    [][\A p \in Procs :
        LET closes == q[p].pc = "rows" /\ q'[p].pc = "closed"
        IN /\ ~closes => (NothingAdded /\ (q'[p].added => q[p].added))
           /\ (closes /\ q'[p].added) => (q[p].kind = "recorder" /\ q'[p].uc = "nil")
           /\ (closes /\ q'[p].uc = "closeerr") =>
                    /\ q'[p].cret = "closeerr"
                    /\ ~q'[p].added
                    /\ lru' = lru /\ rdb' = rdb]_vars

\* A miss was closed, the wrapped stream's Close returned nil, and the entry
\* went to the store.
C32_Witness ==
    \E p \in Procs :
        /\ q[p].pc = "closed" /\ q[p].kind = "recorder"
        /\ q[p].uc = "nil" /\ q[p].added /\ ~q[p].addErr
        /\ Has(lru[LRU0.id], q[p].key)

\* The wrapped stream's Close failed on a miss.
C32_CloseFailed ==
    \E p \in Procs :
        q[p].pc = "closed" /\ q[p].kind = "recorder" /\ q[p].uc = "closeerr"

\* C36: whenever an entry is installed after the caller observed the end of
\* the stream, its value matrix holds the full result: exactly one row for
\* each row the wrapped stream produced, in stream order, however many times
\* (zero, one or several) the caller called Scan on each row.
C36_FullResultRecorded ==
    \A p \in Procs :
        (/\ q[p].pc = "closed" /\ q[p].kind = "recorder"
         /\ q[p].added /\ ~q[p].addErr
         /\ q[p].done /\ ~q[p].serr /\ q[p].src = << >>) =>
            /\ Has(lru[LRU0.id], q[p].key)
            /\ ItemOf(lru[LRU0.id], q[p].key).val.e.Values = DbRows(q[p].query)

\* The same for a caller that called Scan exactly once on each row.
C36_FullResultWhenScannedOnce ==
    \A p \in Procs :
        (/\ q[p].pc = "closed" /\ q[p].kind = "recorder"
         /\ q[p].added /\ ~q[p].addErr
         /\ q[p].done /\ ~q[p].serr /\ q[p].src = << >>
         /\ q[p].out = DbRows(q[p].query)) =>
            /\ Has(lru[LRU0.id], q[p].key)
            /\ ItemOf(lru[LRU0.id], q[p].key).val.e.Values = DbRows(q[p].query)

---------------------------------------------------------------------------
(* Claims about the TTL an entry is stored with.                           *)

\* The ttl the context of a call carries: zero without an options record.
Ambient(ctx) == IF ctx.opts.ok THEN ctx.opts.ttl ELSE 0

\* C33: the TTL passed to the store's Add is the ttl of the call's context
\* when that is not zero, and the driver's default TTL when it is zero or the
\* context carries no options; so WithTTL(ctx, 0) on a driver with a default
\* TTL other than zero stores with the default TTL, not without expiry.
C33_AmbientTTLOrDefault ==
    [][\A p \in Procs :
        (q[p].pc = "rows" /\ q'[p].pc = "closed" /\ q'[p].added) =>
            LET ttl == IF Ambient(q[p].ctx) # 0 THEN Ambient(q[p].ctx) ELSE cfg.ttl
                it == ItemOf(lru'[LRU0.id], q[p].key)
            IN /\ q[p].ttl = ttl
               /\ Has(lru'[LRU0.id], q[p].key)
               /\ IF ttl = 0 THEN it.val.typ = "Entry"
                  ELSE it.val.typ = "entry" /\ it.val.expiry = now + ttl]_vars

\* An entry recorded under WithTTL(ctx, 0) on a driver whose default TTL is
\* not zero is in the store with an expiry.
C33_Witness ==
    \E p \in Procs :
        /\ q[p].pc = "closed" /\ q[p].added
        /\ q[p].ctx.opts.ok /\ q[p].ctx.opts.ttl = 0 /\ cfg.ttl = 1
        /\ Has(lru[LRU0.id], q[p].key)
        /\ ItemOf(lru[LRU0.id], q[p].key).val.typ = "entry"

---------------------------------------------------------------------------
(* Claims about the column names of an entry.                              *)

\* The entry the first level holds under the key of caller p.
StoredFor(l, p) == ItemOf(l[LRU0.id], q[p].key).val.e

\* C35: the columns of a recorded entry are the wrapped stream's column
\* names if the caller called Columns successfully at least once before
\* Close, and empty otherwise; on a hit Columns returns exactly the recorded
\* columns, so a hit on an entry recorded without a call of Columns returns
\* no column names.
C35_RecordedColumns ==
    [][\A p \in Procs :
        /\ (q[p].pc = "rows" /\ q'[p].pc = "closed" /\ q'[p].added) =>
                /\ Has(lru'[LRU0.id], q[p].key)
                /\ StoredFor(lru', p).Columns = q[p].cols
                /\ q[p].cols \in {<< >>, DbColumns(q[p].query)}
        /\ (q[p].pc = "rows" /\ q[p].kind = "repeater") =>
                /\ Has(lru[LRU0.id], q[p].key)
                /\ q'[p].cols \in {q[p].cols, StoredFor(lru, p).Columns}
                /\ q[p].cols \in {<< >>, StoredFor(lru, p).Columns}]_vars

\* A hit whose Columns returned the names the miss before it had recorded.
C35_Witness ==
    \E p \in Procs :
        /\ q[p].kind = "repeater"
        /\ q[p].cols = DbColumns(SelA)
        /\ StoredFor(lru, p).Columns = DbColumns(SelA)

\* A hit on an entry this driver recorded without a call of Columns.
C35_NoNames ==
    \E p \in Procs :
        /\ q[p].kind = "repeater" /\ q[p].pc = "closed"
        /\ Has(lru[LRU0.id], q[p].key)
        /\ StoredFor(lru, p).Columns = << >>
        /\ q[p].cols = << >>

---------------------------------------------------------------------------
(* Claims about the option helpers and the contexts they return.           *)

---------------------------------------------------------------------------
(* Claims about hits served side by side.                                  *)

HitKey == DefaultHash(SelA, NoArgs).key

\* C37: serving a hit never changes the stored entry: after any number of
\* hits on a key, fully or partially iterated, one after the other or at the
\* same time, the entry stored under the key still has all its columns and
\* rows, and every later hit replays the complete row sequence from the first
\* row; two hits at the same time on the same key each see every row exactly
\* once.
C37_HitsLeaveTheEntry ==
    [][/\ Has(lru'[LRU0.id], HitKey)
       /\ ItemOf(lru'[LRU0.id], HitKey).val = ItemOf(lru[LRU0.id], HitKey).val
       /\ ItemOf(lru'[LRU0.id], HitKey).val.e = Entry(DbColumns(SelA), DbRows(SelA))
       /\ rdb' = rdb
       /\ \A p \in Callers :
            /\ (q[p].pc # "rows" /\ q'[p].pc = "rows") =>
                    /\ q'[p].kind = "repeater"
                    /\ q'[p].values = DbRows(SelA)
                    /\ q'[p].columns = DbColumns(SelA)
                    /\ q'[p].out = << >>
            /\ q'[p].kind = "repeater" => q'[p].out \o q'[p].values = DbRows(SelA)
            /\ (q'[p] # q[p]) => \A u \in Callers \ {p} : q'[u] = q[u]]_vars

\* Two hits under way at the same time, one having scanned both rows and the
\* other the first row only, after an earlier hit was closed.
C37_Witness ==
    \E p, u \in Callers :
        /\ p # u
        /\ calls = 3
        /\ q[p].pc = "rows" /\ q[p].out = DbRows(SelA)
        /\ q[u].pc = "rows" /\ q[u].out = <<DbRows(SelA)[1]>>

---------------------------------------------------------------------------
(* Claims about keys of different types.                                   *)

\* C38: keys that differ as Key values never share a cached entry: in a
\* store that includes the remote tier, a lookup under a key is never served
\* an entry added under a different key, also when the two keys have the same
\* textual form (the integer 1 and the string "1").
C38_KeysNeverShare ==
    \A p \in Procs :
        (q[p].pc = "get" /\ q[p].err = "nil") => q[p].e = EntryOf(q[p].key)

\* The same over in-process LRUs only, whose keys are compared as Go values.
C38_LocalKeysNeverShare ==
    \A p \in Procs :
        (~HasRedis /\ q[p].pc = "get" /\ q[p].err = "nil") =>
            q[p].e = EntryOf(q[p].key)

---------------------------------------------------------------------------
(* Claims about an eviction and the misses in flight.                      *)

\* C40: once a query run with Evict(ctx) for a key has returned, the store
\* never again holds an entry for that key recorded from an execution of the
\* wrapped driver that started before the eviction; in particular a miss in
\* flight at the time of the eviction does not install its result for the
\* key when it is closed afterwards.  (Here the only recording execution is
\* the one in flight at every eviction.)
C40_EvictedStaysOut ==
    (q[Evictor].pc \in {"rows", "closed"} /\ q[Evictor].deleted) =>
        /\ ~Has(lru[LRU0.id], DefaultHash(SelA, NoArgs).key)
        /\ rdb[Sprint(DefaultHash(SelA, NoArgs).key)] = NoBytes

\* The eviction itself leaves the key out of the store: it holds while the
\* miss in flight has not been closed.
C40_EvictedWhileInFlight ==
    (q[Evictor].pc \in {"rows", "closed"} /\ q[Evictor].deleted
        /\ q[Recorder].pc = "rows") =>
        /\ ~Has(lru[LRU0.id], DefaultHash(SelA, NoArgs).key)
        /\ rdb[Sprint(DefaultHash(SelA, NoArgs).key)] = NoBytes

=============================================================================
